---- MODULE Spec2Model ----
(***************************************************************************)
(* granularity: a dependency graph of Var and Computed nodes               *)
(* (src/src/value.rs), the Runtime with its `current` slot and memo        *)
(* (src/src/runtime.rs), and the test programs of src/src/lib.rs that      *)
(* build graphs out of them.                                               *)
(*                                                                         *)
(* The engine is single threaded.  A top-level call (set, get) runs to     *)
(* completion; a get that has to evaluate a compute closure is modelled    *)
(* step by step with an explicit evaluation stack: one frame per running   *)
(* closure, holding the values the closure has read so far.                *)
(***************************************************************************)
EXTENDS Integers, Sequences, FiniteSets, TLC

\* Number of Var::set calls a run performs (keeps the evaluation counters finite).
MaxSets == 3

\* Number of Value::take calls a run performs.
MaxTakes == 2

\* The runtime's changed version never exceeds this (Version is a u64 that
\* only ever grows by one per bump: it cannot wrap within these bounds).
MaxVersion == 3

\* Number of Producer::produce calls a run performs.
MaxProduce == 3

\* Option<T>: None is the empty sequence, Some(v) is <<v>>.
None == <<>>
Some(v) == <<v>>
Range(s) == {s[i] : i \in DOMAIN s}

VARIABLES
    program,      \* which test program built the graph
    value,        \* node -> Option<T>   (Var: always Some; Computed: cached value)
    readers,      \* node -> set of nodes (ValueInner::readers)
    trace,        \* node -> sequence of nodes read by the last evaluation
    prev,         \* memo node -> Option<(K, T)>  (captured by the memo closure)
    current,      \* RuntimeInner::current : Option<node>
    stack,        \* running evaluations, innermost last
    failed,       \* "none", or the panic that ended the run
    life,         \* node -> "none" (not created yet), "live" or "freed"
    held,         \* nodes the program holds a Value handle to
    captured,     \* Computed -> nodes its compute closure holds a handle to
    version,      \* RuntimeInner::version : [changed, validated]
    versionCalls, \* what change_version / validated_version returned last
    nTakes,       \* takes performed so far
    evalCount,    \* node -> invocations of the compute closure
    keyCount,     \* memo node -> invocations of key_fn
    computeCount, \* memo node -> invocations of compute_fn
    nSets,        \* sets performed so far
    since,        \* node -> Vars set since the node's last completed evaluation
    pendingSets,  \* sets since the last top-level read started
    opStart,      \* snapshot taken when the last top-level read started
    lastOp,       \* the last completed top-level operation
    cells,        \* stream: index -> Element, its allocation state and `next`
    top,          \* stream: Producer::top, None once the Producer is dropped
    consumerNext, \* stream: consumer -> Consumer::next, None when not alive
    draining,     \* stream: consumer -> the drain() iterator held on it
    log,          \* stream: the values produced so far, oldest first
    startAt,      \* stream: consumer -> number of values produced and drained
                  \*         before it, when it was made
    seen,         \* stream: consumer -> the values it has yielded
    lastDrain,    \* stream: the drain() that ran to its end in the last step
    subscribed,   \* stream: the number of values produced before subscribe()
    handles,      \* the NodePtr and RefCellNodeHandle values built so far
    nodeVersion,  \* node -> ValueVersion of the node, [changed, validated]
    evaluatedSince \* Computed -> evaluated since it was created or invalidated

graphRest == <<handles, nodeVersion, evaluatedSince, program, value, readers, trace, prev, current, stack,
               life, held, captured, version, versionCalls, nTakes,
               evalCount, keyCount, computeCount, nSets, since, pendingSets,
               opStart, lastOp>>

graphVars == <<graphRest, failed>>

streamVars == <<cells, top, consumerNext, draining, log, startAt, seen, lastDrain,
                subscribed>>

vars == <<graphVars, streamVars>>

----------------------------------------------------------------------------
(* The test programs of src/src/lib.rs.                                    *)

Programs == {"diamond", "switch", "div_check", "simple_memo", "memo_untracked"}

\* Programs that also create nodes while they run, drop handles, call
\* take(), or close a cycle.
LifecyclePrograms == {"lifecycle", "take_chain", "drop_var", "cycle"}

\* The Vars of a program with the values the program sets them to.
VarDomain(p) ==
    CASE p = "diamond"     -> [a |-> {1, 2}]
      [] p = "switch"      -> [a |-> {"a", "aa"}, switch |-> {FALSE, TRUE}, b |-> {"b", "bb"}]
      [] p = "div_check"   -> [num |-> {42, 84}, den |-> {2, 0}]
      [] p = "simple_memo" -> [a |-> {1, 2}]
      [] p = "memo_untracked" -> [a |-> {1, 2}, x |-> {0, 10}]
      [] p = "lifecycle"   -> [a |-> {1, 2}]
      [] p = "take_chain"  -> [a |-> {1, 2}]
      [] p = "drop_var"    -> [a |-> {1}]
      [] p = "cycle"       -> [sw |-> {FALSE, TRUE}]
      [] p = "subscription" -> [producer |-> {"stream"}]
      [] p = "computed_macro" -> [a |-> {1, 2}, c |-> {3}, tmp |-> {1}]

\* rt.var(v): the initial values.
VarInit(p) ==
    CASE p = "diamond"     -> [a |-> 1]
      [] p = "switch"      -> [a |-> "a", switch |-> FALSE, b |-> "b"]
      [] p = "div_check"   -> [num |-> 42, den |-> 2]
      [] p = "simple_memo" -> [a |-> 1]
      [] p = "memo_untracked" -> [a |-> 1, x |-> 0]
      [] p = "lifecycle"   -> [a |-> 1]
      [] p = "take_chain"  -> [a |-> 1]
      [] p = "drop_var"    -> [a |-> 1]
      [] p = "cycle"       -> [sw |-> FALSE]
      [] p = "subscription" -> [producer |-> "stream"]
      [] p = "computed_macro" -> [a |-> 1, c |-> 3, tmp |-> 1]

ComputedNodes(p) ==
    CASE p = "diamond"     -> {"b", "c", "d"}
      [] p = "switch"      -> {"ac", "r"}
      [] p = "div_check"   -> {"div", "check"}
      [] p = "simple_memo" -> {"c", "m"}
      [] p = "memo_untracked" -> {"mx"}
      [] p = "lifecycle"   -> {"b"}
      [] p = "take_chain"  -> {"b", "c"}
      [] p = "drop_var"    -> {"c"}
      [] p = "cycle"       -> {"p", "q"}
      [] p = "subscription" -> {"sub", "user"}
      [] p = "computed_macro" -> {"r", "r2"}

MemoNodes(p) ==
    CASE p = "simple_memo" -> {"m"}
      [] p = "memo_untracked" -> {"mx"}
      [] OTHER -> {}

Vars(p) == DOMAIN VarDomain(p)
Nodes(p) == Vars(p) \cup ComputedNodes(p)
IsVar(n) == n \in Vars(program)

\* The handles each compute closure owns when it is built: the clones the
\* map! and memo! macros take, or the values moved into the closure.
Captures(p) ==
    CASE p = "diamond"     -> [b |-> {"a"}, c |-> {"a"}, d |-> {"b", "c"}]
      [] p = "switch"      -> [ac |-> {"a"}, r |-> {"switch", "ac", "b"}]
      [] p = "div_check"   -> [div |-> {"num", "den"}, check |-> {"den", "div"}]
      [] p = "simple_memo" -> [c |-> {"a"}, m |-> {"a"}]
      [] p = "memo_untracked" -> [mx |-> {"a", "x"}]
      [] p = "lifecycle"   -> [b |-> {"a"}]
      [] p = "take_chain"  -> [b |-> {"a"}, c |-> {"b"}]
      [] p = "drop_var"    -> [c |-> {"a"}]
      [] p = "cycle"       -> [p |-> {"q"}, q |-> {"sw", "p"}]
      [] p = "subscription" -> [sub |-> {"producer"}, user |-> {"sub"}]
      [] p = "computed_macro" -> [r |-> {"a"}, r2 |-> {"a", "c"}]

\* The Computed nodes the program creates while it runs (the others exist
\* when it starts), the handles it keeps when it starts, the handles it
\* drops and the Computed nodes it calls take() on.
Creatable(p) ==
    CASE p = "lifecycle"    -> {"b"}
      [] p = "subscription" -> {"sub", "user"}
      [] OTHER              -> {}
HeldInit(p) == IF p = "drop_var" THEN {"c"} ELSE Nodes(p) \ Creatable(p)
Droppable(p) ==
    CASE p = "lifecycle" -> {"a", "b"}
      [] p = "drop_var"  -> {"c"}
      [] OTHER           -> {}
Takers(p) ==
    CASE p = "lifecycle"  -> {"b"}
      [] p = "take_chain" -> {"b", "c"}
      [] p = "drop_var"   -> {"c"}
      [] OTHER           -> {}

----------------------------------------------------------------------------
(* Compute closures.  A closure is a function of the values it has read    *)
(* so far (vals): it either reads another node, returns, or panics.        *)

\* key / compute: this step enters key_fn / compute_fn of a memo closure;
\* cache: the (key, value) pair a memo closure stores before it returns.
\* drops: the handles the closure drops before it returns.
DoRead(d) == [op |-> "read", dep |-> d, key |-> FALSE, compute |-> FALSE, cache |-> None,
              drops |-> {}]
DoRet(v)  == [op |-> "ret", val |-> v, key |-> FALSE, compute |-> FALSE, cache |-> None,
              drops |-> {}]
DoPanic(m) == [op |-> "panic", msg |-> m, key |-> FALSE, compute |-> FALSE, cache |-> None,
               drops |-> {}]
DoVar(n) == [op |-> "var", node |-> n, key |-> FALSE, compute |-> FALSE, cache |-> None,
             drops |-> {}]

\* map!(|a| a * 2)
diamond_b(vals) ==
    IF Len(vals) = 0 THEN DoRead("a") ELSE DoRet(vals[1] * 2)

\* map!(|a| a * 3)
diamond_c(vals) ==
    IF Len(vals) = 0 THEN DoRead("a") ELSE DoRet(vals[1] * 3)

\* map!(|b, c| { ec += 1; b + c })
diamond_d(vals) ==
    CASE Len(vals) = 0 -> DoRead("b")
      [] Len(vals) = 1 -> DoRead("c")
      [] OTHER         -> DoRet(vals[1] + vals[2])

\* map!(|a| a)
switch_ac(vals) ==
    IF Len(vals) = 0 THEN DoRead("a") ELSE DoRet(vals[1])

\* As switch_r, written map!(|switch, b| if !switch { ac.get() } else { b }):
\* the macro reads every argument before the body runs.
switch_r_eager_b(vals) ==
    CASE Len(vals) = 0 -> DoRead("switch")
      [] Len(vals) = 1 -> DoRead("b")
      [] Len(vals) = 2 -> IF ~vals[1] THEN DoRead("ac") ELSE DoRet(vals[2])
      [] OTHER         -> DoRet(vals[3])

\* As switch_r, written map!(|switch, ac| if !switch { ac } else { b.get() }).
switch_r_eager_ac(vals) ==
    CASE Len(vals) = 0 -> DoRead("switch")
      [] Len(vals) = 1 -> DoRead("ac")
      [] Len(vals) = 2 -> IF ~vals[1] THEN DoRet(vals[2]) ELSE DoRead("b")
      [] OTHER         -> DoRet(vals[3])

\* map!(|switch| if !switch { ac.get() } else { b.get() })
switch_r(vals) ==
    CASE Len(vals) = 0 -> DoRead("switch")
      [] Len(vals) = 1 -> IF ~vals[1] THEN DoRead("ac") ELSE DoRead("b")
      [] OTHER         -> DoRet(vals[2])

\* map!(|num, den| num / den) : integer division panics on a zero divisor
div_check_div(vals) ==
    CASE Len(vals) = 0 -> DoRead("num")
      [] Len(vals) = 1 -> DoRead("den")
      [] OTHER         -> IF vals[2] = 0 THEN DoPanic("attempt to divide by zero")
                          ELSE DoRet(vals[1] \div vals[2])

\* As div_check_check, written map!(|den, div| if den == 0 { None } else { Some(div) }).
div_check_check_eager(vals) ==
    CASE Len(vals) = 0 -> DoRead("den")
      [] Len(vals) = 1 -> DoRead("div")
      [] OTHER         -> IF vals[1] = 0 THEN DoRet(None) ELSE DoRet(Some(vals[2]))

\* map!(|den| if den == 0 { None } else { Some(div.get()) })
div_check_check(vals) ==
    CASE Len(vals) = 0 -> DoRead("den")
      [] Len(vals) = 1 -> IF vals[1] = 0 THEN DoRet(None) ELSE DoRead("div")
      [] OTHER         -> DoRet(Some(vals[2]))

\* map!(|a| { count += 1; a + 1 })
simple_memo_c(vals) ==
    IF Len(vals) = 0 THEN DoRead("a") ELSE DoRet(vals[1] + 1)

\* map!(|a| a * 2)
lifecycle_b(vals) ==
    IF Len(vals) = 0 THEN DoRead("a") ELSE DoRet(vals[1] * 2)

\* map!(|a| a * 2)
take_chain_b(vals) ==
    IF Len(vals) = 0 THEN DoRead("a") ELSE DoRet(vals[1] * 2)

\* map!(|b| b + 1)
take_chain_c(vals) ==
    IF Len(vals) = 0 THEN DoRead("b") ELSE DoRet(vals[1] + 1)

\* rt.computed(move || { let r = a.as_ref().unwrap().get(); a = None; r })
\* where a : Option<Value>; cap is what the closure still holds.
drop_var_c(vals, cap) ==
    IF Len(vals) = 0
    THEN IF "a" \in cap THEN DoRead("a")
         ELSE DoPanic("called Option::unwrap() on a None value")
    ELSE [DoRet(vals[1]) EXCEPT !.drops = {"a"}]

\* rt.computed(move || q.get() + 1)
cycle_p(vals) ==
    IF Len(vals) = 0 THEN DoRead("q") ELSE DoRet(vals[1] + 1)

\* rt.computed(move || if sw.get() { p.get() } else { 0 })
cycle_q(vals) ==
    CASE Len(vals) = 0 -> DoRead("sw")
      [] Len(vals) = 1 -> IF vals[1] THEN DoRead("p") ELSE DoRet(0)
      [] OTHER         -> DoRet(vals[2])

\* As subscription_sub, handing out the Consumer that stream() returned.
subscription_sub_other(vals) ==
    IF Len(vals) = 0 THEN DoRead("producer") ELSE DoRet("consumer")

\* Producer::subscribe: move || { producer.track(); consumer.clone() },
\* where consumer is the ConsumerValue made by subscribe(): the clone is
\* another Rc to the same RefCell<stream::Consumer>.
subscription_sub(vals) ==
    IF Len(vals) = 0 THEN DoRead("producer") ELSE DoRet("consumer2")

\* A Computed of the program that reads the subscription node:
\* runtime.computed(move || sub.get())
subscription_user(vals) ==
    IF Len(vals) = 0 THEN DoRead("sub") ELSE DoRet(vals[1])

\* map!(|a, b| { let _just_here... = rt.var(1); a + b }), with a for
\* a and b: the closure creates a Var of its own after its reads.
computed_macro_r(vals) ==
    CASE Len(vals) = 0 -> DoRead("a")
      [] Len(vals) = 1 -> DoVar("tmp")
      [] OTHER         -> DoRet(vals[1] + 2)

\* map!(|a, b, c| a + b + c), with a for a and b
computed_macro_r2(vals) ==
    CASE Len(vals) = 0 -> DoRead("a")
      [] Len(vals) = 1 -> DoRead("c")
      [] OTHER         -> DoRet(vals[1] + 2 + vals[2])

\* memo!(|a| ...): key_fn is `move || a.get()`, the nodes it reads in order.
memo_key(n) == <<"a">>

\* memo!(|a| { count += 1; a + 1 })
simple_memo_m_compute(k, cvals) == DoRet(k[1] + 1)

\* rt.memo(move || a.get(), move |a| a + x.get()) : compute_fn reads a node
\* that key_fn does not read (the use the documentation of memo warns about).
memo_untracked_compute(k, cvals) ==
    IF Len(cvals) = 0 THEN DoRead("x") ELSE DoRet(k[1] + cvals[1])

\* compute_fn of memo node n as a closure of the key and of the values it
\* has read itself.
memo_compute(n, k, cvals) ==
    IF n = "m" THEN simple_memo_m_compute(k, cvals)
    ELSE memo_untracked_compute(k, cvals)

\* As memo, without the comparison with the cached key.
memo_always(n, vals, prv) ==
    LET keys == memo_key(n)
    IN  IF Len(vals) < Len(keys)
        THEN [DoRead(keys[Len(vals) + 1]) EXCEPT !.key = (Len(vals) = 0)]
        ELSE LET key == SubSeq(vals, 1, Len(keys))
                 c == memo_compute(n, key, SubSeq(vals, Len(keys) + 1, Len(vals)))
             IN  [c EXCEPT !.compute = (Len(vals) = Len(keys)),
                           !.cache = IF c.op = "ret"
                                     THEN Some([key |-> key, val |-> c.val])
                                     ELSE None]

\* The closure Runtime::memo builds for node n: key() first; on an equal
\* cached key return a clone of the cached value, otherwise compute(&key)
\* and cache (key, value).
memo(n, vals, prv) ==
    LET keys == memo_key(n)
    IN  IF Len(vals) < Len(keys)
        THEN [DoRead(keys[Len(vals) + 1]) EXCEPT !.key = (Len(vals) = 0)]
        ELSE LET key == SubSeq(vals, 1, Len(keys))
             IN  IF prv # None /\ key = prv[1].key
                 THEN DoRet(prv[1].val)
                 ELSE LET c == memo_compute(n, key,
                                            SubSeq(vals, Len(keys) + 1, Len(vals)))
                      IN  [c EXCEPT !.compute = (Len(vals) = Len(keys)),
                                    !.cache = IF c.op = "ret"
                                              THEN Some([key |-> key, val |-> c.val])
                                              ELSE None]

\* The compute closure of Computed node n of the running program.
Closure(n, vals, prv) ==
    CASE program = "diamond" /\ n = "b"       -> diamond_b(vals)
      [] program = "diamond" /\ n = "c"       -> diamond_c(vals)
      [] program = "diamond" /\ n = "d"       -> diamond_d(vals)
      [] program = "switch" /\ n = "ac"       -> switch_ac(vals)
      [] program = "switch" /\ n = "r"        -> switch_r(vals)
      [] program = "div_check" /\ n = "div"   -> div_check_div(vals)
      [] program = "div_check" /\ n = "check" -> div_check_check(vals)
      [] program = "simple_memo" /\ n = "c"   -> simple_memo_c(vals)
      [] program = "simple_memo" /\ n = "m"   -> memo(n, vals, prv)
      [] program = "memo_untracked" /\ n = "mx" -> memo(n, vals, prv)
      [] program = "lifecycle" /\ n = "b"     -> lifecycle_b(vals)
      [] program = "take_chain" /\ n = "b"    -> take_chain_b(vals)
      [] program = "take_chain" /\ n = "c"    -> take_chain_c(vals)
      [] program = "drop_var" /\ n = "c"      -> drop_var_c(vals, captured[n])
      [] program = "cycle" /\ n = "p"         -> cycle_p(vals)
      [] program = "cycle" /\ n = "q"         -> cycle_q(vals)
      [] program = "subscription" /\ n = "sub" -> subscription_sub(vals)
      [] program = "subscription" /\ n = "user" -> subscription_user(vals)
      [] program = "computed_macro" /\ n = "r" -> computed_macro_r(vals)
      [] program = "computed_macro" /\ n = "r2" -> computed_macro_r2(vals)

----------------------------------------------------------------------------
(* Node storage.  The operations of value.rs are state transformers over   *)
(* the heap: the fields of every ValueInner plus the panic, if any.        *)

Heap == [value |-> value, readers |-> readers, trace |-> trace, failed |-> failed,
         life |-> life, held |-> held, captured |-> captured]

Fail(h, msg) == IF h.failed = "none" THEN [h EXCEPT !.failed = msg] ELSE h

\* As drop_trace, without the remove_reader calls.
drop_trace_keep_readers(h, n) == [h EXCEPT !.trace[n] = <<>>]

\* As drop_trace, without trace.clear().
drop_trace_keep_trace(h, n) ==
    [h EXCEPT !.readers = [d \in DOMAIN h.readers |->
                              IF d \in Range(h.trace[n])
                              THEN h.readers[d] \ {n} ELSE h.readers[d]]]

\* drop_trace: remove node n from the readers of every dependency in its
\* trace, then clear the trace.
drop_trace(h, n) ==
    [h EXCEPT !.readers = [d \in DOMAIN h.readers |->
                              IF d \in Range(h.trace[n])
                              THEN h.readers[d] \ {n} ELSE h.readers[d]],
              !.trace[n] = <<>>]

RECURSIVE invalidate(_, _)
RECURSIVE invalidate_readers(_, _)

\* As invalidate, clearing the cached value of the direct readers only.
invalidate_shallow(h, n) ==
    LET taken == h.readers[n]
        h1 == [h EXCEPT !.readers[n] = {},
                        !.value = [m \in DOMAIN h.value |->
                                      IF m \in taken THEN None ELSE h.value[m]]]
    IN  {IF IsVar(n) THEN h1
         ELSE drop_trace([h1 EXCEPT !.value[n] = None], n)}

\* The loop `for reader in &readers { reader.invalidate() }` run from each
\* of the heaps hs.  A HashSet iterates in no particular order: the result
\* is the set of heaps that some order produces.
invalidate_readers(hs, rs) ==
    IF rs = {} THEN hs
    ELSE UNION {invalidate_readers(UNION {invalidate(h, reader) : h \in hs},
                                   rs \ {reader}) : reader \in rs}

\* Node::invalidate for ValueInner: take the readers and invalidate each of
\* them, put the cleared set back, then (Computed only) drop the cached
\* value and the trace.  The heaps it can end in.
invalidate(h, n) ==
    LET taken == h.readers[n]
        finish(h1) ==
            LET h2 == IF h1.readers[n] # {}
                      THEN Fail(h1, "readers changed while invalidation runs")
                      ELSE h1
                h3 == [h2 EXCEPT !.readers[n] = {}]
            IN  IF IsVar(n) THEN h3
                ELSE drop_trace([h3 EXCEPT !.value[n] = None], n)
    IN  {finish(h1) : h1 \in invalidate_readers({[h EXCEPT !.readers[n] = {}]}, taken)}

\* As primitive_apply, a Computed ignoring the new value.
primitive_apply_lenient(h, n, x) ==
    IF IsVar(n) THEN [h EXCEPT !.value[n] = Some(x)] ELSE h

\* Primitive::apply on a heap: replace the value of a Var; a Computed panics.
primitive_apply(h, n, x) ==
    IF IsVar(n) THEN [h EXCEPT !.value[n] = Some(x)]
    ELSE Fail(h, "Cannot set a computed value")

\* As apply, skipping the invalidation when the new value equals the old.
apply_if_changed(h, n, x) ==
    IF IsVar(n) /\ h.value[n] = Some(x) THEN {h}
    ELSE {primitive_apply(h1, n, x) : h1 \in invalidate(h, n)}

\* ValueInner::apply with f = |_| x (Value::set): invalidate, then
\* Primitive::apply.  The heaps it can end in.
apply(h, n, x) == {primitive_apply(h1, n, x) : h1 \in invalidate(h, n)}

\* As take, handing out the cached value of a Computed without removing it.
take_keep_value(h, n) ==
    IF IsVar(n) THEN {Fail(h, "Cannot take a var")} ELSE {h}

\* ValueInner::take after ensure_valid: a Var panics; a Computed gives up
\* its cached value and invalidates itself.  The heaps it can end in.
take(h, n) ==
    IF IsVar(n) THEN {Fail(h, "Cannot take a var")}
    ELSE invalidate([h EXCEPT !.value[n] = None], n)

\* As needs_evaluation, ignoring the cached value.
needs_evaluation_always(h, n) == ~IsVar(n)

\* ValueInner::ensure_valid decides to run the compute closure.
needs_evaluation(h, n) == ~IsVar(n) /\ h.value[n] = None

\* As track_read_from, a Var ignoring the request.
track_read_from_lenient(h, reader, from) ==
    IF IsVar(reader) THEN h
    ELSE [h EXCEPT !.trace[reader] = Append(@, from)]

\* Node::track_read_from for ValueInner: a Computed pushes a handle to
\* `from` on its trace, a Var panics.
track_read_from(h, reader, from) ==
    IF IsVar(reader)
    THEN Fail(h, "A var does not support tracing dependencies")
    ELSE [h EXCEPT !.trace[reader] = Append(@, from)]

\* As track_read, without the insertion into the readers of n.
track_read_no_insert(h, cur, n) ==
    IF cur = None THEN h
    ELSE track_read_from(h, cur[1], n)

\* Value::track_read: with a node being evaluated (cur = Some(reader)),
\* insert it into n's readers and have the reader record n.
track_read(h, cur, n) ==
    IF cur = None THEN h
    ELSE track_read_from([h EXCEPT !.readers[n] = @ \cup {cur[1]}], cur[1], n)

\* As new_computed, evaluating the closure's result ahead of the first read.
new_computed_eager(h, n) ==
    [h EXCEPT !.life[n] = "live", !.value[n] = Some(0), !.readers[n] = {},
              !.trace[n] = <<>>, !.captured[n] = Captures(program)[n],
              !.held = @ \cup {n}]

\* Value::new_computed: a node with no readers, no cached value and an
\* empty trace; the closure owns its captures, the caller gets the handle.
new_computed(h, n) ==
    [h EXCEPT !.life[n] = "live", !.value[n] = None, !.readers[n] = {},
              !.trace[n] = <<>>, !.captured[n] = Captures(program)[n],
              !.held = @ \cup {n}]

\* Rc strong count of node n is not zero: the program holds a handle, or a
\* live node holds one in its closure or in its trace.
Referenced(h, n) ==
    \/ n \in h.held
    \/ \E m \in DOMAIN h.captured :
          /\ h.life[m] = "live"
          /\ n \in h.captured[m] \cup Range(h.trace[m])

\* As drop, without drop_trace.
drop_keep_readers(h, n) ==
    LET h1 == IF h.readers[n] # {}
              THEN Fail(h, "readers must be empty when dropped") ELSE h
    IN  [h1 EXCEPT !.life[n] = "freed", !.value[n] = None,
                   !.trace = IF IsVar(n) THEN @ ELSE [@ EXCEPT ![n] = <<>>],
                   !.captured = IF IsVar(n) THEN @ ELSE [@ EXCEPT ![n] = {}]]

\* Drop for ValueInner: the readers must be gone; a Computed leaves the
\* reader sets of its trace; then the fields (value, closure) are dropped.
drop(h, n) ==
    LET h1 == IF h.readers[n] # {}
              THEN Fail(h, "readers must be empty when dropped") ELSE h
        h2 == IF IsVar(n) THEN h1 ELSE drop_trace(h1, n)
    IN  [h2 EXCEPT !.life[n] = "freed", !.value[n] = None,
                   !.captured = IF IsVar(n) THEN @ ELSE [@ EXCEPT ![n] = {}]]

\* Rc: every live node that no handle refers to any more is dropped, which
\* releases the handles it held in turn.
RECURSIVE release(_)
release(h) ==
    LET dead == {n \in DOMAIN h.life : h.life[n] = "live" /\ ~Referenced(h, n)}
    IN  IF dead = {} THEN h
        ELSE release(drop(h, CHOOSE n \in dead : TRUE))

----------------------------------------------------------------------------
Counters(p) == [n \in ComputedNodes(p) |-> 0]

NoOp == [op |-> "none", node |-> "none", val |-> None, again |-> FALSE,
         evals |-> 0, prevEvals |-> 0, afterTake |-> FALSE]

\* What a top-level read remembers of the state it started in.
Snapshot == [evalCount |-> evalCount, keyCount |-> keyCount,
             computeCount |-> computeCount, prev |-> prev, since |-> since, pendingSets |-> pendingSets]

NoSnapshot == [evalCount |-> <<>>, keyCount |-> <<>>, computeCount |-> <<>>,
               prev |-> <<>>,
               since |-> <<>>, pendingSets |-> 0]

----------------------------------------------------------------------------
(* The stream (src/src/stream.rs): a chain of reference counted Elements.  *)
(* Element i is the one the i-th produce wrote into; the Element a `next`  *)
(* points to is named by its index.                                        *)

Consumers == {"consumer", "consumer2"}
StreamValues == {1, 2}
Elements == 0 .. MaxProduce

\* Element::default / Element::end: allocated, nothing written.
EndElement == [alloc |-> "live", next |-> None]
NoElement == [alloc |-> "none", next |-> None]

Stream == [cells |-> cells, top |-> top, next |-> consumerNext]

\* Rc::strong_count of Element i: the Producer, the Consumers standing on
\* it and the Element before it, as long as that one holds its `next`.
strong_count(s, i) ==
    (IF s.top = Some(i) THEN 1 ELSE 0)
    + Cardinality({c \in Consumers : s.next[c] = Some(i)})
    + (IF i > 0 /\ s.cells[i - 1].alloc = "live" /\ s.cells[i - 1].next # None
       THEN 1 ELSE 0)

\* Dropping the last Rc of an Element frees it and drops its `next`, which
\* may free the Element after it.
RECURSIVE drop_elements(_)
drop_elements(s) ==
    LET dead == {i \in Elements : s.cells[i].alloc = "live" /\ strong_count(s, i) = 0}
    IN  IF dead = {} THEN s
        ELSE drop_elements([s EXCEPT !.cells = [i \in Elements |->
                 IF i \in dead THEN [alloc |-> "freed", next |-> None] ELSE @[i]]])

\* stream(): one unwritten Element, shared by the Producer and the Consumer.
stream ==
    [cells |-> [i \in Elements |-> IF i = 0 THEN EndElement ELSE NoElement],
     top |-> Some(0),
     next |-> [c \in Consumers |-> IF c = "consumer" THEN Some(0) ELSE None]]

\* As produce, without `self.top = new_end`.
produce_in_place(s, v) ==
    LET t == s.top[1]
    IN  [s |-> drop_elements([s EXCEPT !.cells[t].next = Some(<<v, t + 1>>),
                                       !.cells[t + 1] = EndElement]),
         failed |-> s.cells[t].next # None]

\* Producer::produce: write (value, new_end) into the top Element and move
\* on to new_end.  failed: the debug assertion on the top Element.
produce(s, v) ==
    LET t == s.top[1]
    IN  [s |-> drop_elements([s EXCEPT !.cells[t].next = Some(<<v, t + 1>>),
                                       !.cells[t + 1] = EndElement,
                                       !.top = Some(t + 1)]),
         failed |-> s.cells[t].next # None]

\* As get_mut, granting exclusive access to a shared Element.
get_mut_always(s, c) == TRUE

\* Rc::get_mut(&mut self.next) is Some: the Consumer is the only owner of
\* the Element it stands on.
get_mut(s, c) == strong_count(s, s.next[c][1]) = 1

\* As drain_one, not moving on after a value cloned out of a shared Element.
drain_one_stay(s, c) ==
    LET i == s.next[c][1]
        n == s.cells[i].next
    IN  IF get_mut(s, c)
        THEN IF n # None
             THEN [s |-> drop_elements([s EXCEPT !.cells[i].next = None,
                                                 !.next[c] = Some(n[1][2])]),
                   out |-> Some(n[1][1])]
             ELSE [s |-> s, out |-> None]
        ELSE IF n # None THEN [s |-> s, out |-> Some(n[1][1])]
             ELSE [s |-> s, out |-> None]

\* Consumer::drain_one: the only owner of an Element moves its content out
\* (mem::take leaves an unwritten Element behind), anyone else clones it;
\* either way the Consumer moves to the next Element.  out: what is
\* returned.
drain_one(s, c) ==
    LET i == s.next[c][1]
        n == s.cells[i].next
    IN  IF get_mut(s, c)
        THEN IF n # None
             THEN [s |-> drop_elements([s EXCEPT !.cells[i].next = None,
                                                 !.next[c] = Some(n[1][2])]),
                   out |-> Some(n[1][1])]
             ELSE [s |-> s, out |-> None]
        ELSE IF n # None
             THEN [s |-> drop_elements([s EXCEPT !.next[c] = Some(n[1][2])]),
                   out |-> Some(n[1][1])]
             ELSE [s |-> s, out |-> None]

\* As clone, handing out a Consumer that stands where the Producer writes.
clone_at_top(s, c, c2) == [s EXCEPT !.next[c2] = s.top]

\* Clone for Consumer: c2 stands on the Element c stands on.
clone(s, c, c2) == [s EXCEPT !.next[c2] = s.next[c]]

NoDrain == [consumer |-> "none", yielded |-> <<>>, available |-> <<>>, during |-> 0]

StreamInit ==
    /\ cells = stream.cells
    /\ top = stream.top
    /\ consumerNext = stream.next
    /\ draining = [c \in Consumers |-> None]
    /\ log = <<>>
    /\ startAt = [c \in Consumers |-> 0]
    /\ seen = [c \in Consumers |-> <<>>]
    /\ lastDrain = NoDrain
    /\ subscribed = None
    /\ handles = [ptrs |-> {}, rcs |-> {}]

\* changed: what change_version returned last, None once validated_version
\* was called since; validated: the same with the roles swapped; repeat: the
\* last call had such a predecessor.
NoVersionCalls == [changed |-> None, validated |-> None, repeat |-> FALSE]

\* The state after the program has built its graph: Vars hold their initial
\* values, no Computed has been evaluated.
InitOf(ps) ==
    /\ program \in ps
    /\ value = [n \in Nodes(program) |->
                  IF n \in Vars(program) THEN Some(VarInit(program)[n]) ELSE None]
    /\ readers = [n \in Nodes(program) |-> {}]
    /\ trace = [n \in ComputedNodes(program) |-> <<>>]
    /\ prev = [n \in MemoNodes(program) |-> None]
    /\ current = None
    /\ stack = <<>>
    /\ failed = "none"
    /\ life = [n \in Nodes(program) |->
                 IF n \in Creatable(program) THEN "none" ELSE "live"]
    /\ held = HeldInit(program)
    /\ captured = [n \in ComputedNodes(program) |->
                     IF n \in Creatable(program) THEN {} ELSE Captures(program)[n]]
    /\ version = [changed |-> 0, validated |-> 0]
    /\ versionCalls = NoVersionCalls
    /\ nTakes = 0
    /\ evalCount = Counters(program)
    /\ keyCount = [n \in MemoNodes(program) |-> 0]
    /\ computeCount = [n \in MemoNodes(program) |-> 0]
    /\ nSets = 0
    /\ since = [n \in ComputedNodes(program) |-> {}]
    /\ pendingSets = 0
    /\ opStart = NoSnapshot
    /\ lastOp = NoOp
    /\ StreamInit
    /\ nodeVersion = [n \in Nodes(program) |-> [changed |-> 0, validated |-> 0]]
    /\ evaluatedSince = [n \in ComputedNodes(program) |-> FALSE]

Init == InitOf(Programs)

Idle == stack = <<>> /\ failed = "none"
Running == stack # <<>> /\ failed = "none"
Top == stack[Len(stack)]
OnStack(n) == \E i \in DOMAIN stack : stack[i].node = n

\* As is_borrowed, never finding the node borrowed.
is_borrowed_never(n) == FALSE

\* self.0.try_borrow_mut() fails: the RefCell of node n is mutably borrowed
\* by the ensure_valid_and_track_read or take call that is evaluating it.
is_borrowed(n) == OnStack(n)

SetHeap(h) ==
    /\ value' = h.value
    /\ readers' = h.readers
    /\ trace' = h.trace
    /\ failed' = h.failed
    /\ life' = h.life
    /\ held' = h.held
    /\ captured' = h.captured

\* Runtime::computed called by the program for a node it has not built yet;
\* the closure takes its clones from handles the program holds.
CreateNode(n) ==
    /\ Idle
    /\ n \in Creatable(program)
    /\ life[n] = "none"
    /\ Captures(program)[n] \subseteq held
    /\ SetHeap(new_computed(Heap, n))
    /\ lastOp' = [NoOp EXCEPT !.op = "create", !.node = n]
    /\ opStart' = NoSnapshot
    /\ UNCHANGED <<handles, nodeVersion, evaluatedSince, program, prev, current, stack, version, versionCalls, nTakes,
                   evalCount, keyCount, computeCount, nSets, since, pendingSets>>

\* Runtime::computed called by the program.
Create(n) == CreateNode(n) /\ UNCHANGED streamVars

\* Value::set(x) called by the program between reads.
ApplyNode(n, x, msg) ==
    /\ Idle
    /\ nSets < MaxSets
    /\ n \in held
    /\ \E h \in apply(Heap, n, x) :
          SetHeap(release(IF msg = "none" THEN h ELSE Fail(h, msg)))
    /\ nSets' = nSets + 1
    /\ pendingSets' = pendingSets + 1
    /\ since' = [m \in DOMAIN since |-> since[m] \cup {n}]
    /\ lastOp' = [NoOp EXCEPT !.op = "set", !.node = n]
    /\ opStart' = NoSnapshot
    /\ UNCHANGED <<handles, nodeVersion, evaluatedSince, program, prev, current, stack, version, versionCalls, nTakes,
                   evalCount, keyCount, computeCount>>

\* Value::set(x) called by the program between reads.
Set(n, x) == ApplyNode(n, x, "none") /\ UNCHANGED streamVars

\* The read of node n has produced v for its caller: the closure on top of
\* stack st, or the program when no closure is running.
Deliver(st, n, v, start) ==
    IF st = <<>>
    THEN /\ stack' = st
         /\ lastOp' = [op |-> "get", node |-> n, val |-> v,
                       again |-> (lastOp.op = "get" /\ lastOp.node = n),
                       evals |-> IF IsVar(n) THEN 0
                                 ELSE evalCount'[n] - start.evalCount[n],
                       prevEvals |-> lastOp.evals,
                       afterTake |-> (lastOp.op = "take" /\ lastOp.node = n)]
    ELSE /\ stack' = [st EXCEPT ![Len(st)].vals = Append(@, v)]
         /\ UNCHANGED lastOp

\* Runtime::eval entered from ensure_valid: current becomes n, the closure
\* of n starts with nothing read; the frame keeps eval's local `prev` and
\* the call (get or take) that asked for the value.
Enter(n, call) ==
    /\ IF readers[n] # {}
       THEN /\ failed' = "readers must be empty when recomputing"
            /\ UNCHANGED <<stack, current, evalCount>>
       ELSE /\ stack' = Append(stack, [node |-> n, vals |-> <<>>, saved |-> current,
                                       call |-> call])
            /\ current' = Some(n)
            /\ evalCount' = [evalCount EXCEPT ![n] = @ + 1]
            /\ UNCHANGED failed
    /\ UNCHANGED <<value, readers, trace, prev, lastOp, life, held, captured>>

\* Value::get / get_ref / track called by the program.
Get(n) ==
    /\ Idle
    /\ n \in held
    /\ opStart' = Snapshot
    /\ pendingSets' = 0
    /\ IF needs_evaluation(Heap, n)
       THEN Enter(n, "get")
       ELSE /\ SetHeap(track_read(Heap, current, n))
            /\ UNCHANGED <<current, prev, evalCount>>
            /\ Deliver(stack, n, value[n][1], Snapshot)
    /\ UNCHANGED <<streamVars, handles, nodeVersion, evaluatedSince, program, version, versionCalls, nTakes, keyCount, computeCount,
                   nSets, since>>

\* What take() reports to the program.
Taken(n, v, evals) ==
    [NoOp EXCEPT !.op = "take", !.node = n, !.val = v, !.evals = evals]

\* Value::take called by the program: ensure_valid, which may have to run
\* the closure first, then ValueInner::take.
Take(n) ==
    /\ Idle
    /\ nTakes < MaxTakes
    /\ n \in held
    /\ nTakes' = nTakes + 1
    /\ opStart' = Snapshot
    /\ pendingSets' = 0
    /\ IF current # None
       THEN /\ failed' = "take called inside an evaluation"
            /\ UNCHANGED <<value, readers, trace, life, held, captured, current,
                           prev, stack, evalCount, lastOp>>
       ELSE IF needs_evaluation(Heap, n)
       THEN Enter(n, "take")
       ELSE /\ \E h \in take(Heap, n) : SetHeap(release(h))
            /\ lastOp' = Taken(n, IF IsVar(n) THEN None ELSE value[n], 0)
            /\ UNCHANGED <<current, prev, stack, evalCount>>
    /\ UNCHANGED <<streamVars, handles, nodeVersion, evaluatedSince, program, version, versionCalls, keyCount, computeCount, nSets,
                   since>>

\* The program drops its handle to node n; after a panic, unwinding drops
\* the handles of the scopes it leaves.
DropHandle(n) ==
    /\ stack = <<>>
    /\ n \in held
    /\ n \in Droppable(program)
    /\ SetHeap(release([Heap EXCEPT !.held = @ \ {n}]))
    /\ lastOp' = [NoOp EXCEPT !.op = "drop", !.node = n]
    /\ opStart' = NoSnapshot
    /\ UNCHANGED <<streamVars, handles, nodeVersion, evaluatedSince, program, prev, current, stack, version, versionCalls, nTakes,
                   evalCount, keyCount, computeCount, nSets, since, pendingSets>>

PrevOf(n) == IF n \in DOMAIN prev THEN prev[n] ELSE None

\* The counters in the memo test: key_fn and compute_fn invocations.
Count(out) ==
    /\ keyCount' = IF out.key THEN [keyCount EXCEPT ![Top.node] = @ + 1]
                   ELSE keyCount
    /\ computeCount' = IF out.compute
                       THEN [computeCount EXCEPT ![Top.node] = @ + 1]
                       ELSE computeCount

\* The running closure reads a node (Value::get inside a compute closure).
ReadDep ==
    /\ Running
    /\ LET out == Closure(Top.node, Top.vals, PrevOf(Top.node))
       IN  /\ out.op = "read"
           /\ Count(out)
           /\ IF is_borrowed(out.dep)
              THEN \* try_borrow_mut fails, borrow() panics
                   /\ failed' = "already mutably borrowed"
                   /\ stack' = <<>>
                   /\ UNCHANGED <<value, readers, trace, life, held, captured,
                                  prev, current, evalCount, lastOp>>
              ELSE IF needs_evaluation(Heap, out.dep)
              THEN Enter(out.dep, "get")
              ELSE /\ SetHeap(track_read(Heap, current, out.dep))
                   /\ UNCHANGED <<current, prev, evalCount>>
                   /\ Deliver(stack, out.dep, value[out.dep][1], opStart)
    /\ UNCHANGED <<streamVars, handles, nodeVersion, evaluatedSince, program, version, versionCalls, nTakes, nSets, since,
                   pendingSets, opStart>>

\* The running closure returns v: ensure_valid stores Some(v), eval restores
\* `current`; a get tracks the read for the caller, a take goes on with
\* ValueInner::take.
Return ==
    /\ Running
    /\ LET n == Top.node
           out == Closure(n, Top.vals, PrevOf(n))
           rest == SubSeq(stack, 1, Len(stack) - 1)
           stored == [Heap EXCEPT !.value[n] = Some(out.val),
                                  !.captured[n] = @ \ out.drops]
       IN  /\ out.op = "ret"
           /\ Count(out)
           /\ prev' = IF out.cache # None THEN [prev EXCEPT ![n] = out.cache] ELSE prev
           /\ current' = Top.saved
           /\ since' = [since EXCEPT ![n] = {}]
           /\ UNCHANGED evalCount
           /\ IF Top.call = "take"
              THEN /\ \E h \in take(stored, n) : SetHeap(release(h))
                   /\ stack' = rest
                   /\ lastOp' = Taken(n, Some(out.val),
                                      evalCount[n] - opStart.evalCount[n])
              ELSE /\ SetHeap(release(track_read(stored, Top.saved, n)))
                   /\ Deliver(rest, n, out.val, opStart)
    /\ UNCHANGED <<streamVars, handles, nodeVersion, evaluatedSince, program, version, versionCalls, nTakes, nSets, pendingSets,
                   opStart>>

\* The running closure panics.  The panic unwinds every frame; eval has no
\* guard, so `current` keeps the panicking node.
Panic ==
    /\ Running
    /\ LET out == Closure(Top.node, Top.vals, PrevOf(Top.node))
       IN  /\ out.op = "panic"
           /\ failed' = out.msg
    /\ stack' = <<>>
    /\ UNCHANGED <<streamVars, handles, nodeVersion, evaluatedSince, program, value, readers, trace, prev, current, life, held,
                   captured, version, versionCalls, nTakes, evalCount,
                   keyCount, computeCount, nSets, since, pendingSets, opStart,
                   lastOp>>

Next ==
    \/ \E n \in Vars(program) : \E x \in VarDomain(program)[n] : Set(n, x)
    \/ \E n \in Nodes(program) : Get(n)
    \/ ReadDep
    \/ Return
    \/ Panic

Spec == Init /\ [][Next]_vars

\* The programs that create, take and drop.
LifecycleInit == InitOf(LifecyclePrograms)

LifecycleNext ==
    \/ Next
    \/ \E n \in Creatable(program) : Create(n)
    \/ \E n \in Takers(program) : Take(n)
    \/ \E n \in Droppable(program) : DropHandle(n)

LifecycleSpec == LifecycleInit /\ [][LifecycleNext]_vars

\* Node::track_read_from called on node reader outside of a read.
TrackReadFrom(reader, from) ==
    /\ Idle
    /\ SetHeap(track_read_from(Heap, reader, from))
    /\ lastOp' = [NoOp EXCEPT !.op = "track_read_from", !.node = reader]
    /\ opStart' = NoSnapshot
    /\ UNCHANGED <<streamVars, handles, nodeVersion, evaluatedSince, program, prev, current, stack, version, versionCalls, nTakes,
                   evalCount, keyCount, computeCount, nSets, since, pendingSets>>

\* A program that also uses nodes against their kind: set on a Computed,
\* take on a Var, a Var asked to record a dependency.
MisuseInit == InitOf({"take_chain"})

MisuseNext ==
    \/ \E n \in Vars(program) : \E x \in VarDomain(program)[n] : Set(n, x)
    \/ \E n \in Nodes(program) : Get(n)
    \/ ReadDep
    \/ Return
    \/ \E n \in ComputedNodes(program) : Set(n, 0)
    \/ \E n \in Vars(program) : Take(n)
    \/ \E n \in Vars(program) : \E from \in Nodes(program) : TrackReadFrom(n, from)

MisuseSpec == MisuseInit /\ [][MisuseNext]_vars

----------------------------------------------------------------------------
(* The runtime's version (src/src/runtime.rs, src/src/versioning.rs).      *)

\* As change_version, bumping on every call.
change_version_always(v) == [v EXCEPT !.changed = @ + 1]

\* Runtime::change_version: the version the call leaves in the runtime; the
\* call returns its `changed`.
change_version(v) ==
    IF v.validated = v.changed THEN [v EXCEPT !.changed = @ + 1] ELSE v

\* As validated_version, returning without the catch-up.
validated_version_lazy(v) == v

\* Runtime::validated_version: the version the call leaves in the runtime;
\* the call returns its `validated`.
validated_version(v) ==
    IF v.validated < v.changed THEN [v EXCEPT !.validated = v.changed] ELSE v

VersionCall(op, ret) ==
    /\ lastOp' = [NoOp EXCEPT !.op = op, !.val = Some(ret)]
    /\ opStart' = NoSnapshot
    /\ UNCHANGED <<streamVars, handles, nodeVersion, evaluatedSince, program, value, readers, trace, prev, current, stack, failed,
                   life, held, captured, nTakes, evalCount, keyCount,
                   computeCount, nSets, since, pendingSets>>

ChangeVersion ==
    /\ Idle
    /\ change_version(version).changed <= MaxVersion
    /\ version' = change_version(version)
    /\ versionCalls' = [changed |-> Some(version'.changed), validated |-> None,
                        repeat |-> versionCalls.changed # None]
    /\ VersionCall("change_version", version'.changed)

ValidatedVersion ==
    /\ Idle
    /\ version' = validated_version(version)
    /\ versionCalls' = [changed |-> None, validated |-> Some(version'.validated),
                        repeat |-> versionCalls.validated # None]
    /\ VersionCall("validated_version", version'.validated)

\* Runtime::new_var_version: the runtime's version as it is.
NewVarVersion ==
    /\ Idle
    /\ UNCHANGED <<version, versionCalls>>
    /\ VersionCall("new_var_version", version)

\* Runtime::new_computed_version: change_version(), paired with the
\* runtime's validated version.
NewComputedVersion ==
    /\ Idle
    /\ change_version(version).changed <= MaxVersion
    /\ version' = change_version(version)
    /\ versionCalls' = [changed |-> Some(version'.changed), validated |-> None,
                        repeat |-> versionCalls.changed # None]
    /\ VersionCall("new_computed_version",
                   [changed |-> version'.changed, validated |-> version'.validated])

\* A program that builds and reads a node while the runtime's version is
\* asked for and advanced.
VersionInit == InitOf({"lifecycle"})

VersionNext ==
    \/ ChangeVersion
    \/ ValidatedVersion
    \/ NewVarVersion
    \/ NewComputedVersion
    \/ \E n \in Creatable(program) : Create(n)
    \/ \E n \in Nodes(program) : Get(n)
    \/ ReadDep
    \/ Return

VersionSpec == VersionInit /\ [][VersionNext]_vars

----------------------------------------------------------------------------
(* A program that owns the Producer and the Consumers of one stream.       *)

SetStream(s) ==
    /\ cells' = s.cells
    /\ top' = s.top
    /\ consumerNext' = s.next

\* The number of values produced before the Element consumer c stands on.
Position(c) == startAt[c] + Len(seen[c])

\* producer.produce(v)
Produce(v) ==
    /\ failed = "none"
    /\ top # None
    /\ Len(log) < MaxProduce
    /\ LET r == produce(Stream, v)
       IN  /\ SetStream(r.s)
           /\ failed' = IF r.failed THEN "Multiple producers are not supported"
                        ELSE failed
    /\ log' = Append(log, v)
    /\ lastDrain' = NoDrain
    /\ UNCHANGED <<draining, startAt, seen, subscribed, graphRest>>

\* consumer.drain_one() called by the program.
DrainOne(c) ==
    /\ failed = "none"
    /\ consumerNext[c] # None
    /\ draining[c] = None
    /\ LET r == drain_one(Stream, c)
       IN  /\ SetStream(r.s)
           /\ seen' = IF r.out = None THEN seen
                      ELSE [seen EXCEPT ![c] = Append(@, r.out[1])]
    /\ lastDrain' = NoDrain
    /\ UNCHANGED <<draining, log, startAt, subscribed, graphVars>>

\* consumer.drain(): the iterator borrows the consumer and does nothing
\* until it is asked for an item.
Drain(c) ==
    /\ failed = "none"
    /\ consumerNext[c] # None
    /\ draining[c] = None
    /\ draining' = [draining EXCEPT ![c] =
                      Some([from |-> Position(c), produced |-> Len(log)])]
    /\ lastDrain' = NoDrain
    /\ UNCHANGED <<cells, top, consumerNext, log, startAt, seen, subscribed, graphVars>>

\* As from_fn_ends, ending the iteration whatever drain_one returned.
from_fn_ends_always(out) == TRUE

\* iter::from_fn(|| self.drain_one()) under a for loop or collect(): the
\* iteration ends with the first None.
from_fn_ends(out) == out = None

\* The program asks the drain() iterator for its next item.
DrainNext(c) ==
    /\ failed = "none"
    /\ draining[c] # None
    /\ LET r == drain_one(Stream, c)
           it == draining[c][1]
       IN  /\ SetStream(r.s)
           /\ IF from_fn_ends(r.out)
              THEN /\ draining' = [draining EXCEPT ![c] = None]
                   /\ lastDrain' =
                          [consumer |-> c,
                           yielded |-> SubSeq(seen[c], it.from - startAt[c] + 1,
                                              Len(seen[c])),
                           available |-> SubSeq(log, it.from + 1, it.produced),
                           during |-> Len(log) - it.produced]
                   /\ UNCHANGED seen
              ELSE /\ seen' = [seen EXCEPT ![c] = Append(@, r.out[1])]
                   /\ lastDrain' = NoDrain
                   /\ UNCHANGED draining
    /\ UNCHANGED <<log, startAt, subscribed, graphVars>>

\* let c2 = c.clone()
CloneConsumer(c, c2) ==
    /\ failed = "none"
    /\ consumerNext[c] # None
    /\ consumerNext[c2] = None
    /\ draining[c] = None
    /\ SetStream(clone(Stream, c, c2))
    /\ startAt' = [startAt EXCEPT ![c2] = Position(c)]
    /\ seen' = [seen EXCEPT ![c2] = <<>>]
    /\ lastDrain' = NoDrain
    /\ UNCHANGED <<draining, log, subscribed, graphVars>>

\* The program drops consumer c.
DropConsumer(c) ==
    /\ failed = "none"
    /\ consumerNext[c] # None
    /\ draining[c] = None
    /\ SetStream(drop_elements([Stream EXCEPT !.next[c] = None]))
    /\ startAt' = [startAt EXCEPT ![c] = 0]
    /\ seen' = [seen EXCEPT ![c] = <<>>]
    /\ lastDrain' = NoDrain
    /\ UNCHANGED <<draining, log, subscribed, graphVars>>

\* The program drops the Producer.
DropProducer ==
    /\ failed = "none"
    /\ top # None
    /\ SetStream(drop_elements([Stream EXCEPT !.top = None]))
    /\ lastDrain' = NoDrain
    /\ UNCHANGED <<draining, log, startAt, seen, subscribed, graphVars>>

StreamSpecInit == InitOf({"lifecycle"})

StreamNext ==
    \/ \E v \in StreamValues : Produce(v)
    \/ \E c \in Consumers : DrainOne(c)
    \/ \E c \in Consumers : Drain(c)
    \/ \E c \in Consumers : DrainNext(c)
    \/ \E c, c2 \in Consumers : CloneConsumer(c, c2)
    \/ \E c \in Consumers : DropConsumer(c)
    \/ DropProducer

StreamSpec == StreamSpecInit /\ [][StreamNext]_vars

----------------------------------------------------------------------------
(* A stream Producer kept in a Var and subscribed to through a Computed    *)
(* (src/src/stream_value.rs).                                              *)

\* stream::Producer::subscribe: a Consumer that stands on the Element the
\* Producer writes next.
subscribe(s, c) == [s EXCEPT !.next[c] = s.top]

\* Producer::subscribe called by the program: reads the Var outside of any
\* evaluation, makes the consumer and the Computed that hands it out.
Subscribe ==
    /\ top # None
    /\ "producer" \in held
    /\ CreateNode("sub")
    /\ SetStream(subscribe(Stream, "consumer2"))
    /\ subscribed' = Some(Len(log))
    /\ startAt' = [startAt EXCEPT !["consumer2"] = Len(log)]
    /\ lastDrain' = NoDrain
    /\ UNCHANGED <<draining, log, seen>>

\* Producer::produce on the Value: Value::apply with a closure that calls
\* stream::Producer::produce.
ProduceValue(v) ==
    /\ top # None
    /\ Len(log) < MaxProduce
    /\ LET r == produce(Stream, v)
       IN  /\ ApplyNode("producer", "stream",
                        IF r.failed THEN "Multiple producers are not supported"
                        ELSE "none")
           /\ SetStream(r.s)
    /\ log' = Append(log, v)
    /\ lastDrain' = NoDrain
    /\ UNCHANGED <<draining, startAt, seen, subscribed>>

\* ConsumerValue::drain on the value the last read of the subscription
\* node returned.
DrainSubscription(c) ==
    /\ Idle
    /\ lastOp.op = "get" /\ lastOp.node = "sub"
    /\ lastOp.val = c
    /\ Drain(c)

SubscriptionInit == InitOf({"subscription"})

SubscriptionNext ==
    \/ Subscribe
    \/ \E v \in StreamValues : ProduceValue(v)
    \/ \E n \in Nodes(program) : Get(n)
    \/ ReadDep
    \/ Return
    \/ \E c \in Consumers : DrainSubscription(c)
    \/ \E c \in Consumers : DrainNext(c)
    \/ DropConsumer("consumer")

SubscriptionSpec == SubscriptionInit /\ [][SubscriptionNext]_vars

\* The subscription node with a Computed of the program that reads it:
\* produce and reads, without the drains.
ReaderNext ==
    \/ Subscribe
    \/ Create("user")
    \/ \E v \in StreamValues : ProduceValue(v)
    \/ \E n \in Nodes(program) : Get(n)
    \/ ReadDep
    \/ Return

ReaderSpec == SubscriptionInit /\ [][ReaderNext]_vars

----------------------------------------------------------------------------
(* Node identity (src/src/runtime.rs): NodePtr and RefCellNodeHandle are   *)
(* fat pointers, a data address and the address of a vtable.  The compiler *)
(* may emit the vtable of one type several times, once per codegen unit    *)
(* that coerces to the trait object, so the same node can be reached       *)
(* through pointers with different vtable addresses.                       *)

Storages == {"n1", "n2", "n3"}
CodegenUnits == {1, 2}

\* The concrete type behind each node: ValueInner<T> for some T.
NodeType(n) == IF n = "n3" THEN "ValueInner<String>" ELSE "ValueInner<i32>"

\* The address of the Rc allocation of node n; the RefCell follows the two
\* reference counts, the ValueInner follows the borrow flag.
RcBoxAddr(n) == CASE n = "n1" -> 64 [] n = "n2" -> 128 [] n = "n3" -> 192
RefCellAddr(n) == RcBoxAddr(n) + 16
ValueAddr(n) == RefCellAddr(n) + 8

\* NodePtr::new(node): &dyn Node coerced in codegen unit u.
NodePtr_new(n, u) ==
    [addr |-> ValueAddr(n), vtable |-> <<NodeType(n), "Node", u>>]

\* RefCellNodeHandle(rc): Rc<RefCell<ValueInner<T>>> coerced to
\* Rc<dyn RefCellNode> in codegen unit u.
RefCellNodeHandle_new(n, u) ==
    [addr |-> RefCellAddr(n), vtable |-> <<NodeType(n), "RefCellNode", u>>]

\* As NodePtr_eq, comparing the fat pointers.
NodePtr_eq_fat(a, b) == a = b

\* PartialEq for NodePtr: the pointers cast to *const ().
NodePtr_eq(a, b) == a.addr = b.addr

\* Hash for NodePtr: the pointer cast to *const (), one word.
NodePtr_hash(a) == <<a.addr>>

\* RefCellNode::as_ptr for RefCell<T>: the NodePtr of the value inside the
\* RefCell, with the vtable of the unit that holds this impl.
RefCellNode_as_ptr(h) == [addr |-> h.addr + 8, vtable |-> <<h.vtable[1], "Node", 1>>]

\* PartialEq for RefCellNodeHandle
RefCellNodeHandle_eq(a, b) == NodePtr_eq(RefCellNode_as_ptr(a), RefCellNode_as_ptr(b))

\* Hash for RefCellNodeHandle: Rc::as_ptr(&self.0).hash(state), the Hash
\* of *const dyn RefCellNode, which writes the address and the metadata.
RefCellNodeHandle_hash(a) == <<a.addr, a.vtable>>

\* The program obtains a NodePtr of node n.
BuildNodePtr(n, u) ==
    /\ [node |-> n, ptr |-> NodePtr_new(n, u)] \notin handles.ptrs
    /\ handles' = [handles EXCEPT !.ptrs = @ \cup {[node |-> n, ptr |-> NodePtr_new(n, u)]}]
    /\ UNCHANGED <<streamVars, nodeVersion, evaluatedSince, program, value, readers,
                   trace, prev, current, stack,
                   life, held, captured, version, versionCalls, nTakes,
                   evalCount, keyCount, computeCount, nSets, since, pendingSets,
                   opStart, lastOp, failed>>

\* The program obtains a RefCellNodeHandle of node n.
BuildRefCellNodeHandle(n, u) ==
    /\ [node |-> n, ptr |-> RefCellNodeHandle_new(n, u)] \notin handles.rcs
    /\ handles' = [handles EXCEPT !.rcs = @ \cup {[node |-> n, ptr |-> RefCellNodeHandle_new(n, u)]}]
    /\ UNCHANGED <<streamVars, nodeVersion, evaluatedSince, program, value, readers,
                   trace, prev, current, stack,
                   life, held, captured, version, versionCalls, nTakes,
                   evalCount, keyCount, computeCount, nSets, since, pendingSets,
                   opStart, lastOp, failed>>

HandleInit == InitOf({"lifecycle"})

HandleNext ==
    \/ \E n \in Storages : \E u \in CodegenUnits : BuildNodePtr(n, u)
    \/ \E n \in Storages : \E u \in CodegenUnits : BuildRefCellNodeHandle(n, u)

HandleSpec == HandleInit /\ [][HandleNext]_vars

----------------------------------------------------------------------------
(* The version stamps of the nodes.  src/src/runtime.rs declares them: the *)
(* Node trait reports last_changed(), track_read_from takes the Version    *)
(* read, a Trace entry pairs a Version with a handle, and the runtime      *)
(* hands out new_var_version() and new_computed_version().  The Value that *)
(* keeps a ValueVersion per node and stamps it is described in the         *)
(* specification, sections 3 and 4.3; its operations are taken from there  *)
(* and call the version functions modelled above.  An operation runs to    *)
(* completion in one step, the closures of the nodes it evaluates          *)
(* included.                                                               *)

PullPrograms == {"diamond", "computed_macro"}

\* The Vars the program creates after its first read, and the Vars a
\* closure creates for itself.
LateVars(p) == IF p = "computed_macro" THEN {"c"} ELSE {}
LocalVars(p) == IF p = "computed_macro" THEN {"tmp"} ELSE {}

\* Runtime::new_var_version: the runtime's version as it is; the runtime is
\* left alone.
new_var_version(v) == v

\* Runtime::new_computed_version: change_version(), paired with the
\* runtime's validated version; the value is also the version the call
\* leaves in the runtime.
new_computed_version(v) ==
    [changed |-> change_version(v).changed, validated |-> change_version(v).validated]

\* The graph as the version-stamping operations see it.
PullHeap == [value |-> value, trace |-> trace, nv |-> nodeVersion, rt |-> version,
             ev |-> evaluatedSince]

\* Node::last_changed
last_changed(h, n) == h.nv[n].changed

\* As pull_track_read_from, recording the version of the runtime.
pull_track_read_from_epoch(h, n, from) ==
    [h EXCEPT !.trace[from] = Append(@, <<h.rt.changed, n>>)]

\* Track read: push (self.last_changed(), handle-to-self) onto the trace of
\* the reader `from`.
pull_track_read_from(h, n, from) ==
    [h EXCEPT !.trace[from] = Append(@, <<last_changed(h, n), n>>)]

\* As dependency_changed, comparing with the changed Version of the runtime.
dependency_changed_epoch(h, n) ==
    \E i \in DOMAIN h.trace[n] : h.trace[n][i][1] < h.rt.changed

\* Some trace entry of n recorded a Version below the dependency's current
\* changed Version.
dependency_changed(h, n) ==
    \E i \in DOMAIN h.trace[n] : h.trace[n][i][1] < last_changed(h, h.trace[n][i][2])

RECURSIVE pull_ensure_valid(_, _)
RECURSIVE pull_evaluate(_, _, _)

\* runtime.eval(self, || cached_value = Some(compute())): the closure of n
\* runs from the values it has read so far; a read validates the dependency
\* and records it in the fresh trace of n; a Var the closure creates takes
\* new_var_version().
pull_evaluate(h, n, vals) ==
    LET out == Closure(n, vals, None) IN
    CASE out.op = "read" ->
            LET h1 == pull_track_read_from(pull_ensure_valid(h, out.dep), out.dep, n)
            IN pull_evaluate(h1, n, Append(vals, h1.value[out.dep][1]))
      [] out.op = "var" ->
            pull_evaluate([h EXCEPT !.nv[out.node] = new_var_version(h.rt)], n,
                          Append(vals, out.node))
      [] OTHER -> [h EXCEPT !.value[n] = Some(out.val), !.ev[n] = TRUE]

\* ensure_valid as the specification gives it: the fast path, the stamp of
\* a Var, the walk over the trace of a Computed, the evaluation that stamps
\* `changed`, and the stamp of `validated` whether or not it ran.
pull_ensure_valid(h, n) ==
    LET rt == validated_version(h.rt)
        vv == rt.validated
        h1 == [h EXCEPT !.rt = rt]
    IN  IF h1.nv[n].validated = vv THEN h1
        ELSE IF IsVar(n) THEN [h1 EXCEPT !.nv[n].validated = vv]
        ELSE LET needed == h1.value[n] = None \/ dependency_changed(h1, n)
                 h2 == IF needed
                       THEN [pull_evaluate([h1 EXCEPT !.trace[n] = <<>>], n, <<>>)
                               EXCEPT !.nv[n].changed = vv]
                       ELSE h1
             IN  [h2 EXCEPT !.nv[n].validated = vv]

\* set(value): bump the changed Version of the Var to
\* runtime.change_version() and replace the stored value.
pull_set(h, n, x) ==
    [h EXCEPT !.rt = change_version(h.rt),
              !.nv[n].changed = change_version(h.rt).changed,
              !.value[n] = Some(x)]

\* As pull_invalidate, leaving the cached value in place.
pull_invalidate_keep_value(h, n) ==
    [h EXCEPT !.rt = change_version(h.rt),
              !.nv[n].changed = change_version(h.rt).changed,
              !.trace[n] = <<>>,
              !.ev[n] = FALSE]

\* invalidate() of a Computed: drop the cached value and the trace and bump
\* `changed`.
pull_invalidate(h, n) ==
    [h EXCEPT !.rt = change_version(h.rt),
              !.nv[n].changed = change_version(h.rt).changed,
              !.value[n] = None,
              !.trace[n] = <<>>,
              !.ev[n] = FALSE]

SetPullHeap(h) ==
    /\ value' = h.value
    /\ trace' = h.trace
    /\ nodeVersion' = h.nv
    /\ version' = h.rt
    /\ evaluatedSince' = h.ev
    /\ UNCHANGED <<streamVars, handles, program, readers, prev, current, stack, failed,
                   captured, versionCalls, evalCount, keyCount,
                   computeCount, nSets, since, pendingSets, opStart, lastOp>>

\* Runtime::computed: the new node takes new_computed_version().
PullCreate(n) ==
    /\ n \in ComputedNodes(program)
    /\ life[n] = "none"
    /\ Captures(program)[n] \subseteq held
    /\ new_computed_version(version).changed <= MaxVersion
    /\ SetPullHeap([PullHeap EXCEPT !.rt = change_version(version),
                                    !.nv[n] = new_computed_version(version)])
    /\ life' = [life EXCEPT ![n] = "live"]
    /\ held' = held \cup {n}
    /\ UNCHANGED nTakes

\* Runtime::var called by the program after it has started: the new node
\* takes new_var_version().
PullCreateVar(n) ==
    /\ n \in LateVars(program)
    /\ life[n] = "none"
    /\ SetPullHeap([PullHeap EXCEPT !.nv[n] = new_var_version(version)])
    /\ life' = [life EXCEPT ![n] = "live"]
    /\ held' = held \cup {n}
    /\ UNCHANGED nTakes

\* Value::get from outside any evaluation: no reader, nothing tracked.
PullGet(n) ==
    /\ n \in held
    /\ SetPullHeap(pull_ensure_valid(PullHeap, n))
    /\ UNCHANGED <<life, held, nTakes>>

\* Value::set on a Var.
PullSet(n, x) ==
    /\ IsVar(n)
    /\ n \in held
    /\ change_version(version).changed <= MaxVersion
    /\ SetPullHeap(pull_set(PullHeap, n, x))
    /\ UNCHANGED <<life, held, nTakes>>

\* Value::take on a Computed: validate, invalidate, hand the value out.
PullTake(n) ==
    /\ n \in held
    /\ ~IsVar(n)
    /\ change_version(validated_version(version)).changed <= MaxVersion
    /\ SetPullHeap(pull_invalidate(pull_ensure_valid(PullHeap, n), n))
    /\ nTakes' = nTakes + 1
    /\ UNCHANGED <<life, held>>

\* The program has created its first Vars, each with new_var_version(),
\* and none of its Computed nodes.
PullInit ==
    /\ program \in PullPrograms
    /\ value = [n \in Nodes(program) |->
                  IF n \in Vars(program) THEN Some(VarInit(program)[n]) ELSE None]
    /\ readers = [n \in Nodes(program) |-> {}]
    /\ trace = [n \in ComputedNodes(program) |-> <<>>]
    /\ prev = [n \in MemoNodes(program) |-> None]
    /\ current = None
    /\ stack = <<>>
    /\ failed = "none"
    /\ life = [n \in Nodes(program) |->
                 IF n \in Vars(program) \ (LateVars(program) \cup LocalVars(program))
                 THEN "live" ELSE "none"]
    /\ held = Vars(program) \ (LateVars(program) \cup LocalVars(program))
    /\ captured = [n \in ComputedNodes(program) |-> Captures(program)[n]]
    /\ version = [changed |-> 0, validated |-> 0]
    /\ versionCalls = NoVersionCalls
    /\ nTakes = 0
    /\ evalCount = Counters(program)
    /\ keyCount = [n \in MemoNodes(program) |-> 0]
    /\ computeCount = [n \in MemoNodes(program) |-> 0]
    /\ nSets = 0
    /\ since = [n \in ComputedNodes(program) |-> {}]
    /\ pendingSets = 0
    /\ opStart = NoSnapshot
    /\ lastOp = NoOp
    /\ StreamInit
    /\ nodeVersion = [n \in Nodes(program) |->
                        new_var_version([changed |-> 0, validated |-> 0])]
    /\ evaluatedSince = [n \in ComputedNodes(program) |-> FALSE]

PullNext ==
    \/ \E n \in ComputedNodes(program) : PullCreate(n)
    \/ \E n \in Vars(program) : PullCreateVar(n)
    \/ \E n \in Nodes(program) : PullGet(n)
    \/ \E n \in Vars(program) : \E x \in VarDomain(program)[n] : PullSet(n, x)
    \/ \E n \in ComputedNodes(program) : PullTake(n)

PullSpec == PullInit /\ [][PullNext]_vars

----------------------------------------------------------------------------
(* Properties.                                                             *)

\* The value of node n evaluated from scratch: the closures run on the
\* current values of the Vars, with no cached value and no memo cache.
RECURSIVE FromScratch(_)
RECURSIVE RunFromScratch(_, _)
FromScratch(n) ==
    IF IsVar(n) THEN value[n][1] ELSE RunFromScratch(n, <<>>)
RunFromScratch(n, vals) ==
    LET out == Closure(n, vals, None)
    IN  CASE out.op = "read" -> RunFromScratch(n, Append(vals, FromScratch(out.dep)))
          [] out.op = "ret"  -> out.val
          [] OTHER           -> "panic"

\* The nodes that n depends on through the recorded traces.
RECURSIVE TraceDeps(_)
TraceDeps(n) ==
    IF IsVar(n) THEN {}
    ELSE Range(trace[n]) \cup UNION {TraceDeps(d) : d \in Range(trace[n])}

ReadDone(n) == Idle /\ lastOp.op = "get" /\ lastOp.node = n

\* The programs whose closures are functions of the nodes they read:
\* memo_untracked breaks the contract of memo (the subject of C10), and the
\* closure of drop_var gives up the handle it reads through.
PureClosures == program \notin {"memo_untracked", "drop_var"}

\* C1: every completed read of a node (a Var, or a Computed that depends on
\* Vars directly or through other Computed nodes) returns the value a
\* from-scratch evaluation of the graph yields from the current Var values,
\* whatever sets and reads came before.
C1_ReadReflectsSets ==
    (Idle /\ lastOp.op = "get" /\ PureClosures)
        => lastOp.val = FromScratch(lastOp.node)

\* d depends on a through b and c; a was set to 2 and the read re-evaluated d.
C1_Witness ==
    /\ program = "diamond" /\ ReadDone("d")
    /\ opStart.pendingSets >= 1
    /\ value["a"] = Some(2)
    /\ lastOp.evals = 1
    /\ lastOp.val = 10

\* C2: the second of two consecutive reads of a node, with no set in
\* between, invokes no compute closure at all, and the first invoked the
\* node's closure at most once.
C2_ReadTwiceEvaluatesOnce ==
    (Idle /\ lastOp.op = "get" /\ lastOp.again)
        => /\ lastOp.evals = 0
           /\ lastOp.prevEvals <= 1
           /\ evalCount = opStart.evalCount
           /\ lastOp.val = value[lastOp.node][1]

\* A Computed was read twice in a row; the first read evaluated it.
C2_Witness ==
    /\ Idle /\ lastOp.op = "get" /\ lastOp.again
    /\ ~IsVar(lastOp.node)
    /\ lastOp.prevEvals = 1
    /\ lastOp.evals = 0

\* C3: in the diamond, a read of d returns h(f(a), g(a)) = a*2 + a*3; it
\* invokes d's closure exactly once when a was set since d's last
\* evaluation (or d was never evaluated) and not at all otherwise, so the
\* evaluation count of d is 1 after the first read and never exceeds the
\* number of sets plus one.
C3_DiamondEvaluatesOnce ==
    (program = "diamond" /\ ReadDone("d"))
        => /\ lastOp.val = (value["a"][1] * 2) + (value["a"][1] * 3)
           /\ lastOp.evals = IF opStart.evalCount["d"] = 0
                                \/ "a" \in opStart.since["d"] THEN 1 ELSE 0
           /\ evalCount["d"] <= nSets + 1
           /\ (nSets = 0 => evalCount["d"] = 1)

\* d.get() == 5 with count 1, a.set(2), d.get() == 10 with count 2.
C3_Witness ==
    /\ program = "diamond" /\ ReadDone("d")
    /\ nSets = 1
    /\ opStart.evalCount["d"] = 1
    /\ evalCount["d"] = 2
    /\ lastOp.val = 10

\* A step that sets a Var keeps the cached value and the trace of every
\* Computed that does not have that Var among its trace dependencies.
C4_SetStep ==
    (lastOp'.op = "set" /\ nSets' = nSets + 1)
        => \A n \in ComputedNodes(program) :
              lastOp'.node \notin TraceDeps(n)
                  => value'[n] = value[n] /\ trace'[n] = trace[n]

\* A step invokes the closure of a node only when the node has no cached value.
C4_EvalStep ==
    \A n \in ComputedNodes(program) :
        evalCount'[n] # evalCount[n] => value[n] = None

\* C4: a set on Var a leaves the cached value and the trace of every
\* Computed that does not depend on a through the recorded traces as they
\* were, and a compute closure is only ever invoked for a node that has no
\* cached value: such a node is not re-evaluated by later reads.
C4_UnrelatedUntouched == [][C4_SetStep /\ C4_EvalStep]_vars

\* b was set while ac and r (reading switch and ac) hold cached values.
C4_Witness ==
    /\ program = "switch" /\ Idle
    /\ lastOp.op = "set" /\ lastOp.node = "b"
    /\ value["ac"] # None /\ value["r"] # None
    /\ "b" \notin TraceDeps("r")

\* The Var behind the branch r does not take for the current switch.
UnreadVar == IF value["switch"][1] THEN "a" ELSE "b"

\* C5: when r has been evaluated and since then only the Var of the branch
\* not selected by switch was set, a read of r does not invoke r's closure.
C5_UnreadBranchDoesNotDirty ==
    (program = "switch" /\ ReadDone("r")
       /\ opStart.evalCount["r"] >= 1
       /\ opStart.since["r"] \subseteq {UnreadVar})
        => lastOp.evals = 0 /\ evalCount["r"] = opStart.evalCount["r"]

\* switch is false, r read ac; b was set, then r was read again.
C5_Witness ==
    /\ program = "switch" /\ ReadDone("r")
    /\ opStart.evalCount["r"] >= 1
    /\ opStart.since["r"] = {"b"}
    /\ value["switch"] = Some(FALSE)
    /\ lastOp.evals = 0

\* C6: a read of r that takes the branch not reading ac (switch is true)
\* does not evaluate ac; an ac that is stale (a was set since its last
\* evaluation, or it was never evaluated) still has no cached value when
\* the read of r has returned.
C6_UnreadStaleStaysInvalid ==
    (program = "switch" /\ ReadDone("r") /\ value["switch"] = Some(TRUE))
        => /\ evalCount["ac"] = opStart.evalCount["ac"]
           /\ ("a" \in since["ac"] \/ evalCount["ac"] = 0) => value["ac"] = None

\* r.get() == "a"; a.set("aa"); switch.set(true); r.get() == "b"; !ac.is_valid().
C6_Witness ==
    /\ program = "switch" /\ ReadDone("r")
    /\ value["switch"] = Some(TRUE)
    /\ evalCount["ac"] = 1 /\ "a" \in since["ac"]
    /\ evalCount["r"] = 2 /\ lastOp.evals = 1
    /\ lastOp.val = "b"
    /\ value["ac"] = None

\* C7: check.get() returns None when den is 0 and Some(num / den)
\* otherwise; the closure of div runs with den = 0 only when div itself is
\* what the program reads; after a read of check with den # 0 the cached
\* division is the one of the current num and den.
C7_DivCheck ==
    program = "div_check" =>
        /\ ReadDone("check")
             => /\ lastOp.val = IF value["den"] = Some(0) THEN None
                                ELSE Some(value["num"][1] \div value["den"][1])
                /\ value["den"] # Some(0)
                     => value["div"] = Some(value["num"][1] \div value["den"][1])
        /\ (OnStack("div") /\ value["den"] = Some(0)) => stack[1].node = "div"

\* den went 2 -> 0 -> 2 with a read of check after each step.
C7_Witness ==
    /\ program = "div_check" /\ ReadDone("check")
    /\ nSets = 2
    /\ evalCount["check"] = 3
    /\ evalCount["div"] = 2
    /\ lastOp.val = Some(21)

\* C8: a read of the plain Computed c = a + 1 that follows one or more sets
\* of a, whatever the values set, invokes c's closure exactly once.
C8_SetsCollapse ==
    (program = "simple_memo" /\ ReadDone("c"))
        => /\ opStart.pendingSets >= 1 => lastOp.evals = 1
           /\ "a" \in opStart.since["c"] => lastOp.evals = 1

\* c.get(), a.set(2), a.set(1), c.get(): the count goes from 1 to 2.
C8_Witness ==
    /\ program = "simple_memo" /\ ReadDone("c")
    /\ nSets = 2 /\ opStart.pendingSets = 2
    /\ value["a"] = Some(1)
    /\ opStart.evalCount["c"] = 1
    /\ evalCount["c"] = 2
    /\ lastOp.val = 2

\* The key the memo closure of a node keyed on a computes now.
KeyNow == <<value["a"][1]>>
CacheHit(n) == opStart.prev[n] # None /\ opStart.prev[n][1].key = KeyNow

\* C9: a read that re-evaluates the memo node m evaluates key_fn once;
\* compute_fn is invoked once when nothing is cached or the key differs from
\* the cached key, and (key, value) is cached; on an equal key compute_fn is
\* not invoked and the value is the cached one.
C9_MemoKey ==
    (program = "simple_memo" /\ ReadDone("m"))
        => /\ keyCount["m"] = evalCount["m"]
           /\ keyCount["m"] = opStart.keyCount["m"] + lastOp.evals
           /\ lastOp.evals = 0 => computeCount = opStart.computeCount
           /\ (lastOp.evals = 1 /\ CacheHit("m"))
                 => /\ computeCount["m"] = opStart.computeCount["m"]
                    /\ lastOp.val = opStart.prev["m"][1].val
                    /\ prev = opStart.prev
           /\ (lastOp.evals = 1 /\ ~CacheHit("m"))
                 => /\ computeCount["m"] = opStart.computeCount["m"] + 1
                    /\ prev["m"] = Some([key |-> KeyNow, val |-> lastOp.val])

\* m.get(), a.set(2), a.set(1), m.get(): the compute count stays 1.
C9_Witness ==
    /\ program = "simple_memo" /\ ReadDone("m")
    /\ nSets = 2 /\ opStart.pendingSets = 2
    /\ value["a"] = Some(1)
    /\ evalCount["m"] = 2
    /\ keyCount["m"] = 2
    /\ computeCount["m"] = 1
    /\ lastOp.val = 2

\* C10: mx is keyed on a and its compute_fn reads x.  While the key equals
\* the cached key a read of mx never invokes compute_fn, whatever happened
\* to x: it returns the cached value; and when that read re-evaluated mx,
\* x is not in the trace of mx afterwards.
C10_MemoUntracked ==
    (program = "memo_untracked" /\ ReadDone("mx") /\ CacheHit("mx"))
        => /\ computeCount["mx"] = opStart.computeCount["mx"]
           /\ lastOp.val = opStart.prev["mx"][1].val
           /\ lastOp.evals = 1 => "x" \notin Range(trace["mx"])

\* mx.get() == 1 + 0; x.set(10); mx.get() is still 1, and mx no longer
\* depends on x.
C10_Witness ==
    /\ program = "memo_untracked" /\ ReadDone("mx") /\ CacheHit("mx")
    /\ value["x"] = Some(10) /\ value["a"] = Some(1)
    /\ lastOp.evals = 1
    /\ lastOp.val = 1
    /\ trace["mx"] = <<"a">>
    /\ readers["x"] = {}

\* C11: creating a Computed invokes no compute closure and leaves the node
\* without a cached value; the node's first read invokes its closure exactly
\* once.  The runtime's version is advanced at will before and after the
\* creation.
C11_CreatedUnevaluated ==
    \A n \in ComputedNodes(program) :
        /\ life[n] = "none" => evalCount[n] = 0
        /\ (life[n] = "live" /\ evalCount[n] = 0) => value[n] = None
        /\ (ReadDone(n) /\ opStart.evalCount[n] = 0)
              => lastOp.evals = 1 /\ evalCount[n] = 1

\* b has just been created in a runtime whose changed version is ahead of
\* its validated version.
C11_Witness ==
    /\ program = "lifecycle" /\ Idle
    /\ lastOp.op = "create" /\ lastOp.node = "b"
    /\ version = [changed |-> 2, validated |-> 1]
    /\ life["b"] = "live" /\ value["b"] = None
    /\ evalCount["b"] = 0

\* C12: a step that sets Var a changes the stored value of a only: the
\* cached value, the reader set and the trace of every other node are after
\* the call what they were before it.
C12_SetTouchesOnlyVar ==
    [][(lastOp'.op = "set" /\ nSets' = nSets + 1)
          => /\ \A m \in Nodes(program) \ {lastOp'.node} :
                   value'[m] = value[m] /\ readers'[m] = readers[m]
             /\ trace' = trace]_vars

\* C13: a step that frees a Computed (its last handle is dropped) raises no
\* failure, leaves the node with an empty trace, and leaves the reader set
\* and the value of every node of that trace as they were.
C13_DropLeavesDependencies ==
    [][\A n \in ComputedNodes(program) :
          (life[n] = "live" /\ life'[n] = "freed")
              => /\ failed' = failed
                 /\ trace'[n] = <<>>
                 /\ \A d \in Range(trace[n]) :
                       life'[d] = "live"
                           => readers'[d] = readers[d] /\ value'[d] = value[d]]_vars

\* C14: in every state, Computed r is in the reader set of node d exactly
\* when d occurs in the trace of r; only Computed nodes are readers, and a
\* node that is not live (not built yet, or freed) has an empty trace and
\* so reads nothing.
C14_ReadersMatchTraces ==
    /\ \A d \in Nodes(program) :
          /\ readers[d] \subseteq ComputedNodes(program)
          /\ \A r \in ComputedNodes(program) :
                r \in readers[d] <=> d \in Range(trace[r])
    /\ \A r \in ComputedNodes(program) : life[r] # "live" => trace[r] = <<>>

\* b was evaluated once, which made it a reader of a, and has been dropped:
\* a is left without readers.
C14_Witness ==
    /\ program = "lifecycle"
    /\ lastOp.op = "drop" /\ lastOp.node = "b"
    /\ life["b"] = "freed" /\ life["a"] = "live"
    /\ evalCount["b"] = 1
    /\ readers["a"] = {}

\* Every entry of the trace of a live Computed is a live node.
TracesAlive ==
    \A r \in ComputedNodes(program) :
        life[r] = "live" => \A d \in Range(trace[r]) : life[d] = "live"

\* Every entry of a reader set is a live node.
ReadersAlive ==
    \A d \in Nodes(program) : \A r \in readers[d] : life[r] = "live"

\* The node in the runtime's current slot is a live node.
CurrentAlive == current # None => life[current[1]] = "live"

\* A node is only ever dropped with an empty reader set.
FreedWithoutReaders == failed # "readers must be empty when dropped"

\* C15: a node in the trace of a live Computed is not freed, whatever
\* handles the program and the closures drop; no trace entry, reader-set
\* entry or current slot refers to a freed node, and a node is freed only
\* with an empty reader set.
C15_NoDanglingNode ==
    TracesAlive /\ ReadersAlive /\ CurrentAlive /\ FreedWithoutReaders

\* C16: set on a Computed, take on a Var and track_read_from on a Var each
\* end in a failure: none of them returns normally.
C16_MisuseFails ==
    /\ (lastOp.op = "set" /\ ~IsVar(lastOp.node))
          => failed = "Cannot set a computed value"
    /\ (lastOp.op = "take" /\ IsVar(lastOp.node))
          => failed = "Cannot take a var"
    /\ (lastOp.op = "track_read_from" /\ IsVar(lastOp.node))
          => failed = "A var does not support tracing dependencies"

\* c has been evaluated, then the program called set on the Computed b.
C16_Witness ==
    /\ program = "take_chain"
    /\ lastOp.op = "set" /\ lastOp.node = "b"
    /\ evalCount["c"] = 1
    /\ failed = "Cannot set a computed value"

\* No node has two invocations of its closure on the evaluation stack, and
\* a node whose closure is running has no cached value.
NoReentry ==
    /\ \A i, j \in DOMAIN stack : i # j => stack[i].node # stack[j].node
    /\ \A i \in DOMAIN stack : value[stack[i].node] = None

\* The running closure is about to read a node whose closure is on the stack.
ReadsIntoStack ==
    /\ Running
    /\ Closure(Top.node, Top.vals, PrevOf(Top.node)).op = "read"
    /\ OnStack(Closure(Top.node, Top.vals, PrevOf(Top.node)).dep)

\* C17: the closure of a node is never entered while an invocation of it is
\* on the evaluation stack; a read of such a node from inside its own
\* evaluation, directly or through other nodes, invokes no closure and ends
\* the evaluation with a failure.
C17_NoReentrantEvaluation ==
    /\ []NoReentry
    /\ [][ReadsIntoStack
             => /\ failed' = "already mutably borrowed"
                /\ evalCount' = evalCount
                /\ stack' = <<>>]_vars

\* sw is true: the read of p evaluated q, whose closure read p again.
C17_Witness ==
    /\ program = "cycle"
    /\ value["sw"] = Some(TRUE)
    /\ evalCount["p"] = 1 /\ evalCount["q"] = 1
    /\ current = Some("q")
    /\ failed = "already mutably borrowed"

\* The program has just taken the value of a node and nothing ran since.
TakeDone(n) == Idle /\ lastOp.op = "take" /\ lastOp.node = n

\* C18: take() on a Computed returns what a get() in its place would have
\* returned, invoking the closure at most once to get it, and leaves the
\* node without a cached value; a read that follows the take directly, with
\* no set in between, invokes the closure of the node again.
C18_TakeDrains ==
    \A n \in ComputedNodes(program) :
        /\ TakeDone(n) =>
              /\ value[n] = None
              /\ lastOp.evals \in {0, 1}
              /\ PureClosures => lastOp.val = Some(FromScratch(n))
        /\ (ReadDone(n) /\ lastOp.afterTake) =>
              lastOp.evals = 1

\* b was taken and then read: the closure of b ran for the take and again
\* for the read, although a was never set.
C18_Witness ==
    /\ program = "take_chain"
    /\ ReadDone("b") /\ lastOp.afterTake
    /\ nSets = 0
    /\ nTakes = 1
    /\ evalCount["b"] = 2
    /\ value["b"] = Some(FromScratch("b"))

\* The step is a call of change_version or of validated_version that is
\* not a stuttering step.
VersionStep(op) ==
    /\ lastOp'.op = op
    /\ <<lastOp, versionCalls>>' # <<lastOp, versionCalls>>

\* C19: change_version() bumps the changed version of the runtime exactly
\* when validated = changed, leaves validated alone and returns the changed
\* version it leaves behind; a call that follows another one with no
\* validated_version() in between returns the same Version and leaves the
\* version of the runtime as it is.
C19_ChangeVersionIdempotent ==
    [][VersionStep("change_version")
         => /\ version'.changed = IF version.validated = version.changed
                                   THEN version.changed + 1
                                   ELSE version.changed
            /\ version'.validated = version.validated
            /\ lastOp'.val = Some(version'.changed)
            /\ versionCalls.changed # None
                 => /\ version' = version
                    /\ lastOp'.val = versionCalls.changed]_vars

\* The second epoch was opened by one call of change_version and a second
\* call followed it directly.
C19_Witness ==
    /\ lastOp.op = "change_version"
    /\ versionCalls.repeat
    /\ lastOp.val = Some(2)
    /\ version = [changed |-> 2, validated |-> 1]

\* C20: validated_version() raises validated to changed when it is behind
\* and returns the validated version it leaves behind, which equals changed;
\* a call that follows another one with no change_version() in between
\* returns the same Version and leaves the version of the runtime as it is.
C20_ValidatedVersionCatchesUp ==
    [][VersionStep("validated_version")
         => /\ version'.changed = version.changed
            /\ version'.validated = version'.changed
            /\ version.validated >= version.changed => version' = version
            /\ lastOp'.val = Some(version'.validated)
            /\ versionCalls.validated # None
                 => /\ version' = version
                    /\ lastOp'.val = versionCalls.validated]_vars

\* The second epoch was validated by one call of validated_version and a
\* second call followed it directly.
C20_Witness ==
    /\ lastOp.op = "validated_version"
    /\ versionCalls.repeat
    /\ lastOp.val = Some(2)
    /\ version = [changed |-> 2, validated |-> 2]

\* The node whose closure runs on top of evaluation stack st, if any.
Evaluating(st) == IF st = <<>> THEN None ELSE Some(st[Len(st)].node)

\* While a closure runs, the current slot holds its node.
CurrentIsTop == Running => current = Evaluating(stack)

\* When an evaluation returns, the slot holds what it held when the
\* evaluation was entered, which is the node of the frame below.
RestoredOnReturn ==
    (Running /\ failed' = "none" /\ Len(stack') < Len(stack))
        => /\ current' = Top.saved
           /\ current' = Evaluating(stack')

\* Every read that a step records is recorded against the node whose
\* closure is running once the step is done.
ReadsRecordedAgainstTop ==
    \A d \in Nodes(program) : \A r \in readers'[d] \ readers[d] :
        /\ Some(r) = Evaluating(stack')
        /\ trace'[r] = Append(trace[r], d)

\* The slot is empty when no closure is running.
EmptyWhenNotEvaluating == stack = <<>> => current = None

\* C21: while a closure runs the current slot holds its node; when the
\* evaluation returns the slot holds its previous occupant, so that nested
\* evaluations restore last-in-first-out and a read that follows a nested
\* evaluation is recorded against the outer node; the slot is empty
\* whenever no closure is running.
C21_CurrentSlotIsStack ==
    /\ [](CurrentIsTop /\ EmptyWhenNotEvaluating)
    /\ [][RestoredOnReturn /\ ReadsRecordedAgainstTop]_vars

\* C22: when an evaluation fails and the failure propagates out of every
\* running closure, the current slot holds what it held before the
\* outermost eval was called.
C22_RestoredOnFailure ==
    [][(Running /\ failed' # "none") => current' = stack[1].saved]_vars

\* The values a consumer standing on Element i of cells cs has ahead of it.
RECURSIVE Chain(_, _)
Chain(cs, i) ==
    IF cs[i].alloc # "live" \/ cs[i].next = None THEN <<>>
    ELSE <<cs[i].next[1][1]>> \o Chain(cs, cs[i].next[1][2])

Remaining(cs, nx) == IF nx = None THEN <<>> ELSE Chain(cs, nx[1])

Alive(c) == consumerNext[c] # None

\* The values produced after the first k.
ProducedAfter(k) == SubSeq(log, k + 1, Len(log))

\* C23: what a Consumer has yielded so far is the run of values produced
\* after its start position, in production order, up to where it stands,
\* and the values ahead of it are all the values produced since: nothing
\* is skipped, repeated or lost, whatever the interleaving of produce,
\* drain_one and drain.
C23_ConsumerObservesLog ==
    \A c \in Consumers : Alive(c) =>
        /\ Position(c) <= Len(log)
        /\ seen[c] = SubSeq(log, startAt[c] + 1, Position(c))
        /\ Remaining(cells, consumerNext[c]) = ProducedAfter(Position(c))

\* Three values were produced; the consumer drained the first two with one
\* drain() and the third, produced afterwards, with the next.
C23_Witness ==
    /\ Len(log) = 3
    /\ log[1] # log[2]
    /\ seen["consumer"] = log
    /\ lastDrain.consumer = "consumer"
    /\ lastDrain.yielded = <<log[3]>>
    /\ consumerNext["consumer2"] = None

\* The step is a drain_one of consumer c that yields a value.
Yields(c) == Alive(c) /\ Len(seen'[c]) = Len(seen[c]) + 1

\* C24: two Consumers standing on the same Element have the same values
\* ahead of them, all that was produced from there on; a value drained by
\* one of them stays ahead of the other, which neither moves nor loses or
\* gains a value by it.
C24_ClonesAreIndependent ==
    /\ [](\A c, c2 \in Consumers :
            (Alive(c) /\ Alive(c2) /\ consumerNext[c] = consumerNext[c2]) =>
                /\ Remaining(cells, consumerNext[c]) = Remaining(cells, consumerNext[c2])
                /\ Remaining(cells, consumerNext[c2]) = ProducedAfter(Position(c)))
    /\ [][\A c, c2 \in Consumers :
            (c # c2 /\ Yields(c) /\ Alive(c2)) =>
                /\ consumerNext'[c2] = consumerNext[c2]
                /\ seen'[c2] = seen[c2]
                /\ Remaining(cells', consumerNext'[c2])
                     = Remaining(cells, consumerNext[c2])]_vars

\* consumer2 was cloned after the first value; both consumers have drained
\* everything since, the original first.
C24_Witness ==
    /\ Len(log) = 3
    /\ startAt["consumer"] = 0 /\ seen["consumer"] = log
    /\ startAt["consumer2"] = 1 /\ seen["consumer2"] = SubSeq(log, 2, 3)
    /\ Alive("consumer") /\ Alive("consumer2")

\* The step makes consumer c2 as a clone of consumer c.
Cloned(c, c2) ==
    /\ c # c2
    /\ Alive(c)
    /\ ~Alive(c2)
    /\ consumerNext'[c2] # None

\* C25: a clone starts where the original stands when it is cloned: it has
\* yielded nothing, has ahead of it the values the original has not drained
\* yet, and from then on yields the values produced after that position and
\* none of the values the original had drained before.
C25_CloneStartsAtPosition ==
    /\ [][\A c, c2 \in Consumers :
            Cloned(c, c2) =>
                /\ seen'[c2] = <<>>
                /\ Remaining(cells', consumerNext'[c2])
                     = Remaining(cells, consumerNext[c])
                /\ Remaining(cells', consumerNext'[c2]) = ProducedAfter(Position(c))
                /\ startAt'[c2] = Position(c)]_vars
    /\ [](\A c \in Consumers :
            Alive(c) => \A k \in DOMAIN seen[c] : seen[c][k] = log[startAt[c] + k])

\* The clone was taken after the original had drained the first value, with
\* a second value produced and not drained yet and a third one produced
\* later: the clone yielded the second and the third.
C25_Witness ==
    /\ Len(log) = 3
    /\ log[1] # log[2]
    /\ startAt["consumer2"] = 1
    /\ seen["consumer2"] = <<log[2], log[3]>>
    /\ Len(seen["consumer"]) = 1
    /\ Alive("consumer")

\* C26 as stated: a drain() that ran to its end yielded exactly the values
\* that were produced and not yet consumed when drain() was called.
C26_DrainYieldsAvailableAtCall ==
    lastDrain.consumer # "none" => lastDrain.yielded = lastDrain.available

\* C26 as amended: a drain() that ran to its end yielded the values that
\* were available when it was called followed by the values produced while
\* it was iterated, and stopped with nothing left ahead of the consumer;
\* with nothing produced meanwhile that is exactly the values available at
\* the call, and nothing at all on a stream with nothing available.
C26_DrainYieldsUntilEmpty ==
    lastDrain.consumer # "none" =>
        /\ lastDrain.yielded
             = lastDrain.available
                 \o SubSeq(log, Len(log) - lastDrain.during + 1, Len(log))
        /\ lastDrain.during = 0 => lastDrain.yielded = lastDrain.available
        /\ Position(lastDrain.consumer) = Len(log)
        /\ Remaining(cells, consumerNext[lastDrain.consumer]) = <<>>
        /\ Alive(lastDrain.consumer)

\* A drain() that was called with one value available, and had a second
\* one produced while it was iterated, yielded both and ended.
C26_Witness ==
    /\ lastDrain.consumer = "consumer"
    /\ Len(lastDrain.available) = 1
    /\ lastDrain.during = 1
    /\ lastDrain.yielded = log
    /\ Len(log) = 2

\* C27: every read of the subscription node returns the consumer that
\* subscribe() made; what has been drained through it, over all the reads,
\* is the run of values produced after subscribe() was called, in
\* production order and without repetition, and what is ahead of it is
\* everything produced since.
C27_SubscriptionSharesPosition ==
    ReadDone("sub") =>
        LET c == lastOp.val
            k == subscribed[1]
        IN  /\ c = "consumer2"
            /\ Alive(c)
            /\ seen[c] = SubSeq(log, k + 1, k + Len(seen[c]))
            /\ Remaining(cells, consumerNext[c]) = ProducedAfter(k + Len(seen[c]))

\* One value was produced before subscribe() and two after it; the
\* subscription node was read and drained after each of the two, and the
\* reads together yielded the second and the third value.
C27_Witness ==
    /\ program = "subscription"
    /\ ReadDone("sub")
    /\ subscribed = Some(1)
    /\ Len(log) = 3
    /\ log[1] # log[2]
    /\ evalCount["sub"] = 2
    /\ seen["consumer2"] = SubSeq(log, 2, 3)
    /\ lastDrain.consumer = "consumer2"
    /\ lastDrain.yielded = <<log[3]>>

\* Two NodePtrs are equal exactly when they were built from the same node,
\* and equal NodePtrs hash alike.
NodePtrIdentity ==
    \A a, b \in handles.ptrs :
        /\ NodePtr_eq(a.ptr, b.ptr) <=> a.node = b.node
        /\ NodePtr_eq(a.ptr, b.ptr) => NodePtr_hash(a.ptr) = NodePtr_hash(b.ptr)

\* Two RefCellNodeHandles are equal exactly when they were built from the
\* same node.
RefCellNodeHandleIdentity ==
    \A a, b \in handles.rcs :
        RefCellNodeHandle_eq(a.ptr, b.ptr) <=> a.node = b.node

\* Equal RefCellNodeHandles hash alike.
RefCellNodeHandleHash ==
    \A a, b \in handles.rcs :
        RefCellNodeHandle_eq(a.ptr, b.ptr)
            => RefCellNodeHandle_hash(a.ptr) = RefCellNodeHandle_hash(b.ptr)

\* C28: two handles of a kind, NodePtr or RefCellNodeHandle, compare equal
\* exactly when they were built from the same node, whatever vtable each
\* carries, and handles that compare equal produce the same hash.
C28_HandleIdentity ==
    /\ NodePtrIdentity
    /\ RefCellNodeHandleIdentity
    /\ RefCellNodeHandleHash


\* No trace entry records a Version above the changed Version its
\* dependency has now.
TraceVersionsBounded ==
    \A n \in ComputedNodes(program) : \A i \in DOMAIN trace[n] :
        trace[n][i][1] <= nodeVersion[trace[n][i][2]].changed

\* No step lowers the changed Version of a node.
ChangedNeverDecreases ==
    \A n \in Nodes(program) : nodeVersion'[n].changed >= nodeVersion[n].changed

CreatedComputed == {n \in ComputedNodes(program) : life[n] = "live"}

Unevaluated == {n \in ComputedNodes(program) : life[n] = "live" /\ value[n] = None}

\* Neither the assertion at the start of a recomputation nor the one at the
\* end of the reader loop of invalidate has failed.
ReaderAssertionsHold ==
    failed \notin {"readers must be empty when recomputing",
                   "readers changed while invalidation runs"}

\* C31 as stated: a Computed node without a cached value has no readers and
\* an empty trace, and the two assertions on the readers never fail.
C31_NoValueNoEdges ==
    /\ \A n \in Unevaluated : readers[n] = {} /\ trace[n] = <<>>
    /\ ReaderAssertionsHold

\* A step that ends with node n created or without the value it had leaves
\* n with an empty trace.
LosesValueLosesTrace ==
    \A n \in ComputedNodes(program) :
        (life'[n] = "live" /\ value'[n] = None /\ (life[n] # "live" \/ value[n] # None))
            => trace'[n] = <<>>

\* The trace of a node without a cached value changes only by a read its
\* own running closure makes.
TraceGrowsOnlyEvaluating ==
    \A n \in ComputedNodes(program) :
        (life[n] = "live" /\ value[n] = None /\ value'[n] = None
            /\ trace'[n] \notin {trace[n], <<>>})
            => (OnStack(n) /\ trace'[n] = Append(trace[n], trace'[n][Len(trace'[n])]))

\* C31 as amended: a Computed node without a cached value has no readers,
\* and its trace is empty unless an evaluation of the node has started
\* since it lost its value or was created; the two assertions on the
\* readers never fail.
C31_NoValueNoEdgesUnlessEvaluated ==
    /\ [](\A n \in Unevaluated :
             /\ readers[n] = {}
             /\ (failed = "none" /\ ~OnStack(n)) => trace[n] = <<>>)
    /\ [](ReaderAssertionsHold)
    /\ [][LosesValueLosesTrace /\ TraceGrowsOnlyEvaluating]_vars

\* A node that was invalidated after its first evaluation is being
\* evaluated again and has read a dependency.
C31_Witness ==
    \E n \in Unevaluated :
        /\ OnStack(n)
        /\ trace[n] # <<>>
        /\ evalCount[n] >= 2
        /\ failed = "none"

\* The other Consumers that can still reach the Element consumer c stands
\* on: a sibling on the same Element, or one further back in the chain.
OtherHolders(c) ==
    {c2 \in Consumers \ {c} : Alive(c2) /\ consumerNext[c2][1] <= consumerNext[c][1]}

\* Every value produced from where an alive Consumer stands is still in its
\* Element.
NoEmptiedCellAhead ==
    \A c \in Consumers : Alive(c) =>
        \A k \in consumerNext[c][1] .. Len(log) - 1 :
            cells[k].alloc = "live" /\ cells[k].next # None

\* A drain_one of c that yields a value empties the Element c stood on when
\* no one else can reach it, and leaves it as it was otherwise.
MovesOrClones(c) ==
    LET i == consumerNext[c][1]
    IN  IF OtherHolders(c) = {} /\ top # Some(i)
        THEN cells'[i].next = None
        ELSE cells'[i] = cells[i]

\* C32: drain_one moves the value out of an Element only when no sibling
\* Consumer, no lagging Consumer and not the Producer can still reach it,
\* and clones it in every other case, leaving the Element intact; no
\* Consumer ever has an emptied Element ahead where a value was produced.
C32_MovesOnlyWhenUnreachable ==
    [](NoEmptiedCellAhead) /\ [][\A c \in Consumers : Yields(c) => MovesOrClones(c)]_vars

\* Both Consumers started at the first Element; it is gone, moved out by
\* the last of them to pass, and the lagging one still has the second
\* value ahead, which the other one cloned.
C32_Witness ==
    /\ Alive("consumer") /\ Alive("consumer2")
    /\ startAt["consumer"] = 0 /\ startAt["consumer2"] = 0
    /\ Position("consumer") = 2
    /\ Position("consumer2") = 1
    /\ cells[0].alloc = "freed"
    /\ cells[1].alloc = "live" /\ cells[1].next # None

\* The Element the Producer stands on is unwritten.
TailUnwritten ==
    top # None => (cells[top[1]].alloc = "live" /\ cells[top[1]].next = None)

\* The step is a produce.
Produces == Len(log') = Len(log) + 1

\* produce writes the value and the new tail into the Element that was the
\* tail (which is freed at once when no Consumer can reach it), and the new
\* tail is an Element that did not exist before.
WritesTailOnce ==
    LET t == top[1]
        v == log'[Len(log')]
    IN  /\ cells[t].next = None
        /\ top' = Some(t + 1)
        /\ cells[t + 1].alloc = "none"
        /\ cells'[t + 1] = EndElement
        /\ \/ cells'[t] = [alloc |-> "live", next |-> Some(<<v, t + 1>>)]
           \/ cells'[t].alloc = "freed" /\ \A c \in Consumers : ~Alive(c)
        /\ \A i \in Elements \ {t, t + 1} : cells'[i] = cells[i]

\* The content of a written Element is never replaced by another content:
\* it stays, or it is moved out.
NeverOverwritten ==
    \A i \in Elements :
        cells[i].next # None => cells'[i].next \in {cells[i].next, None}

\* C33: the tail Element of the Producer is always unwritten; produce
\* writes exactly that Element, once, and moves the tail to a fresh
\* unwritten Element; a written Element is never overwritten and the
\* assertion in produce never fails.
C33_TailUnwritten ==
    /\ [](TailUnwritten /\ failed # "Multiple producers are not supported")
    /\ [][(Produces => WritesTailOnce) /\ NeverOverwritten]_vars

\* Two values were produced; the second is still in its Element and the
\* Producer stands on the unwritten third.
C33_Witness ==
    /\ Len(log) = 2
    /\ top = Some(2)
    /\ cells[1] = [alloc |-> "live", next |-> Some(<<log[2], 2>>)]
    /\ cells[2] = EndElement

\* The subscription node and the Computed that reads it.
Subscribers == {n \in {"sub", "user"} : life[n] = "live"}

\* The step is a produce on the Producer value.
ProduceStep == Len(log') = Len(log) + 1

\* produce leaves the subscription node and its reader without a cached
\* value, and runs no closure.
ProduceInvalidates ==
    ProduceStep =>
        /\ \A n \in Subscribers : value'[n] = None
        /\ evalCount' = evalCount
        /\ stack' = <<>> /\ current' = current

\* Between operations a subscriber holds a value exactly when it has been
\* evaluated and no produce happened since its last evaluation.
StaleIffProduced ==
    Idle => \A n \in Subscribers :
        value[n] = None <=> (evalCount[n] = 0 \/ "producer" \in since[n])

\* A completed read of a subscriber evaluated it (and, through it, the
\* subscription node) once when a produce happened since its last
\* evaluation or it had never been evaluated, and not at all otherwise.
ReadEvaluatesIffProduced ==
    \A n \in Subscribers : ReadDone(n) =>
        \A m \in IF n = "user" THEN {"sub", "user"} ELSE {"sub"} :
            evalCount[m] - opStart.evalCount[m] =
                IF opStart.evalCount[m] = 0 \/ "producer" \in opStart.since[m]
                THEN 1 ELSE 0

\* C34: after produce(v) the subscription node and every Computed that
\* read it are evaluated again by their next read; without a produce since
\* the last read a read evaluates nothing; produce itself evaluates no
\* node.
C34_ProduceInvalidatesSubscription ==
    [](StaleIffProduced /\ ReadEvaluatesIffProduced) /\ [][ProduceInvalidates]_vars

\* After a produce the reader of the subscription node was read twice: the
\* first read evaluated it and the subscription node again, the second
\* evaluated nothing.
C34_Witness ==
    /\ ReadDone("user")
    /\ Len(log) >= 1
    /\ evalCount["user"] = 2 /\ evalCount["sub"] = 2
    /\ lastOp.again
    /\ lastOp.prevEvals = 1
    /\ lastOp.evals = 0

\* C35: a set on a Computed node that is rejected leaves the graph as it
\* was before the call: the cached values, the traces, the reader sets and
\* the versions are the same when the failure is raised.
C35_RejectedSetLeavesGraph ==
    [][(failed = "none" /\ failed' = "Cannot set a computed value")
          => UNCHANGED <<value, trace, readers, version, nodeVersion>>]_vars

\* The step runs the closure of m again although m held a cached value
\* before the step and holds one after it.
Reinvoked(m) ==
    /\ m \in CreatedComputed
    /\ value[m] # None /\ value'[m] # None
    /\ nodeVersion'[m].changed # nodeVersion[m].changed

\* The step creates a node at top level.
CreationStep == \E n \in Nodes(program) : life[n] = "none" /\ life'[n] = "live"

\* A creation leaves every Computed that exists as it was: its cached
\* value, its trace, its versions, and whether one of its dependencies has
\* moved since it recorded them.
CreationKeepsCaches ==
    CreationStep => \A m \in CreatedComputed :
        /\ value'[m] = value[m]
        /\ trace'[m] = trace[m]
        /\ nodeVersion'[m] = nodeVersion[m]
        /\ dependency_changed([trace |-> trace', nv |-> nodeVersion', rt |-> version'], m)
              <=> dependency_changed(PullHeap, m)

====
